---- MODULE Spec2Model ----
(***************************************************************************)
(* Model of the n4n5 configuration store: the TOML-backed Config object    *)
(* (src/src/config.rs), the get-or-prompt-and-persist macros               *)
(* (src/src/macros.rs), the interactive input helpers (src/src/utils.rs)   *)
(* and the sync subcommand's users of them (src/src/commands/sync.rs).     *)
(*                                                                         *)
(* A Rust String is a tuple of one-character strings (<<"a">>), an         *)
(* Option<T> is a tuple of length 0 (None) or 1 (Some(x) = <<x>>), a Vec   *)
(* is a tuple.  The text of the configuration file is a tuple of lines.    *)
(***************************************************************************)
EXTENDS Naturals, Sequences, FiniteSets, TLC

\* ------------------------------------------------------------- bounds
\* Longest standard-input stream offered to one operation (lines before EOF).
MaxLines == 2
\* Longest sync.file_paths list add_file may build.
MaxFiles == 2
\* Operations (resolves, add_file) performed over all invocations of a run.
MaxOps == 2

\* Longest sync.file_paths list of the round-trip check.
MaxPaths == 2

\* Longest sync.file_paths list save_files mirrors.
MaxMirror == 2

\* Longest chain of pages GitHub holds for one query.
MaxPages == 3

\* Requests one fetch loop is followed for.
MaxRequests == 4

\* Longest movie list get_stats is given.
MaxMovies == 3

\* Most crates the user's listing on crates.io holds.
MaxCrates == 3

\* ------------------------------------------------------------- strings
None == <<>>
Some(x) == <<x>>

\* The cancel sentinel of input_path: a single backslash.
Sentinel == <<"\\">>

\* The file system outside the configuration file: the paths that exist.
Exists(s) == s \in { <<"a">>, <<"b">> }

\* std: char::to_lowercase on the letters the model's lines use.
ToLowercase(s) ==
    [i \in 1..Len(s) |-> CASE s[i] = "Y" -> "y" [] s[i] = "E" -> "e" [] s[i] = "S" -> "s"
                            [] OTHER -> s[i]]

\* ------------------------------------------------------------- data
DefaultMovies == [file_path |-> None, public_file_path |-> None]

DefaultProgramsConfig == [cargo_programs |-> None, vscode_extensions |-> None, nix |-> None]

DefaultSyncCliCommand == [file_paths |-> <<>>, save_folder_path |-> None, programs |-> None]

DefaultGh == [username |-> None, file_pulls |-> None, file_projects |-> None]

DefaultMusicCliCommand == [music_file |-> None, env_path |-> None]

DefaultConfigData == [movies |-> None, sync |-> None, gh |-> None, music |-> None]

DefaultSection(sec) ==
    CASE sec = "movies" -> DefaultMovies
      [] sec = "sync" -> DefaultSyncCliCommand
      [] sec = "gh" -> DefaultGh
      [] sec = "music" -> DefaultMusicCliCommand

\* ------------------------------------------------------------- TOML text
\* One line of TOML text: a table header ([movies], [sync.programs]), a string
\* entry (key = "v", val = <<v>>), an array entry (key = ["v", ...], val the
\* items) or a line that is not TOML (junk).
TableLine(name) == [k |-> "table", key |-> name, val |-> <<>>]

StrLine(key, s) == [k |-> "str", key |-> key, val |-> <<s>>]

ArrLine(key, items) == [k |-> "arr", key |-> key, val |-> items]

JunkLine == [k |-> "junk", key |-> "", val |-> <<>>]

\* A variant of the serializer that writes a None field as the empty string.
SerOptStr_writes_empty(key, o) ==
    IF o = None THEN <<StrLine(key, <<>>)>> ELSE <<StrLine(key, o[1])>>

\* serde: an Option field that is None is skipped, Some(s) is written.
SerOptStr(key, o) == IF o = None THEN <<>> ELSE <<StrLine(key, o[1])>>

SerMovies(m) ==
    <<TableLine("movies")>> \o SerOptStr("file_path", m.file_path)
        \o SerOptStr("public_file_path", m.public_file_path)

SerProgramsConfig(p) ==
    <<TableLine("sync.programs")>> \o SerOptStr("cargo_programs", p.cargo_programs)
        \o SerOptStr("vscode_extensions", p.vscode_extensions)
        \o SerOptStr("nix", p.nix)

SerSyncCliCommand(s) ==
    <<TableLine("sync"), ArrLine("file_paths", s.file_paths)>>
        \o SerOptStr("save_folder_path", s.save_folder_path)
        \o (IF s.programs = None THEN <<>> ELSE SerProgramsConfig(s.programs[1]))

SerGh(g) ==
    <<TableLine("gh")>> \o SerOptStr("username", g.username)
        \o SerOptStr("file_pulls", g.file_pulls)
        \o SerOptStr("file_projects", g.file_projects)

SerMusicCliCommand(m) ==
    <<TableLine("music")>> \o SerOptStr("music_file", m.music_file)
        \o SerOptStr("env_path", m.env_path)

\* toml::to_string(&config_data): the sections in declaration order, an
\* absent section written as nothing.
TomlToString(cd) ==
    (IF cd.movies = None THEN <<>> ELSE SerMovies(cd.movies[1]))
        \o (IF cd.sync = None THEN <<>> ELSE SerSyncCliCommand(cd.sync[1]))
        \o (IF cd.gh = None THEN <<>> ELSE SerGh(cd.gh[1]))
        \o (IF cd.music = None THEN <<>> ELSE SerMusicCliCommand(cd.music[1]))

\* The table a line belongs to: the last header before it ("" is the root).
TableOf(text, i) ==
    LET before == {j \in 1..(i - 1) : text[j].k = "table"}
    IN IF before = {} THEN ""
       ELSE text[CHOOSE j \in before : \A h \in before : h <= j].key

\* A parsed document: the lines with the table each belongs to.
Document(text) == [i \in DOMAIN text |-> [line |-> text[i], tbl |-> TableOf(text, i)]]

Entries(doc, tbl, key) ==
    {i \in DOMAIN doc : doc[i].line.k \in {"str", "arr"} /\ doc[i].line.key = key
                        /\ doc[i].tbl = tbl}

HasTable(doc, tbl) ==
    \E i \in DOMAIN doc : doc[i].line.k = "table" /\ doc[i].line.key = tbl

\* [sync.programs] defines sync implicitly.
SectionPresent(doc, sec) ==
    HasTable(doc, sec) \/ (sec = "sync" /\ HasTable(doc, "sync.programs"))

\* TOML syntax: no junk line, no table header twice, no key twice in a table.
TomlSyntaxOk(doc) ==
    /\ \A i \in DOMAIN doc : doc[i].line.k # "junk"
    /\ \A i, j \in DOMAIN doc :
          (i < j /\ doc[i].line.k = doc[j].line.k /\ doc[i].line.k = "table")
             => doc[i].line.key # doc[j].line.key
    /\ \A i, j \in DOMAIN doc :
          (i < j /\ doc[i].line.k \in {"str", "arr"} /\ doc[j].line.k \in {"str", "arr"}
             /\ doc[i].tbl = doc[j].tbl) => doc[i].line.key # doc[j].line.key

\* serde Deserialize of the derive'd structs: an Option<String> field takes a
\* string, file_paths takes an array and is required (no serde default) when
\* the sync table is there; unknown keys are ignored.
StrFields(tbl) ==
    CASE tbl = "movies" -> {"file_path", "public_file_path"}
      [] tbl = "sync" -> {"save_folder_path"}
      [] tbl = "sync.programs" -> {"cargo_programs", "vscode_extensions", "nix"}
      [] tbl = "gh" -> {"username", "file_pulls", "file_projects"}
      [] tbl = "music" -> {"music_file", "env_path"}
      [] OTHER -> {}

TomlTypesOk(doc) ==
    /\ \A i \in DOMAIN doc :
          /\ (doc[i].line.k = "arr" => doc[i].line.key \notin StrFields(doc[i].tbl))
          /\ (doc[i].line.k = "str" =>
                ~(doc[i].tbl = "sync" /\ doc[i].line.key = "file_paths"))
    /\ SectionPresent(doc, "sync") => Entries(doc, "sync", "file_paths") # {}

DeOptStr(doc, tbl, key) ==
    LET es == Entries(doc, tbl, key)
    IN IF es = {} THEN None ELSE Some(doc[CHOOSE i \in es : TRUE].line.val[1])

DeMovies(doc) ==
    [file_path |-> DeOptStr(doc, "movies", "file_path"),
     public_file_path |-> DeOptStr(doc, "movies", "public_file_path")]

DeProgramsConfig(doc) ==
    [cargo_programs |-> DeOptStr(doc, "sync.programs", "cargo_programs"),
     vscode_extensions |-> DeOptStr(doc, "sync.programs", "vscode_extensions"),
     nix |-> DeOptStr(doc, "sync.programs", "nix")]

DeSyncCliCommand(doc) ==
    [file_paths |-> doc[CHOOSE i \in Entries(doc, "sync", "file_paths") : TRUE].line.val,
     save_folder_path |-> DeOptStr(doc, "sync", "save_folder_path"),
     programs |-> IF HasTable(doc, "sync.programs")
                  THEN Some(DeProgramsConfig(doc)) ELSE None]

DeGh(doc) ==
    [username |-> DeOptStr(doc, "gh", "username"),
     file_pulls |-> DeOptStr(doc, "gh", "file_pulls"),
     file_projects |-> DeOptStr(doc, "gh", "file_projects")]

DeMusicCliCommand(doc) ==
    [music_file |-> DeOptStr(doc, "music", "music_file"),
     env_path |-> DeOptStr(doc, "music", "env_path")]

DeConfigData(doc) ==
    [movies |-> IF SectionPresent(doc, "movies") THEN Some(DeMovies(doc)) ELSE None,
     sync |-> IF SectionPresent(doc, "sync") THEN Some(DeSyncCliCommand(doc)) ELSE None,
     gh |-> IF SectionPresent(doc, "gh") THEN Some(DeGh(doc)) ELSE None,
     music |-> IF SectionPresent(doc, "music") THEN Some(DeMusicCliCommand(doc)) ELSE None]

\* toml::from_str::<ConfigData>(str_config): Ok(data) or Err.
TomlFromStr(text) ==
    LET doc == Document(text)
    IN IF TomlSyntaxOk(doc) /\ TomlTypesOk(doc)
       THEN [ok |-> TRUE, data |-> DeConfigData(doc)]
       ELSE [ok |-> FALSE, data |-> DefaultConfigData]

\* Config::parse_config: a parse error is reported on stderr and replaced by
\* ConfigData::default(); use_input starts true.
parse_config(str_config) ==
    LET parsed == TomlFromStr(str_config)
    IN [use_input |-> TRUE,
        config_data |-> IF parsed.ok THEN parsed.data ELSE DefaultConfigData,
        warned |-> ~parsed.ok]

\* ------------------------------------------------------------- standard input
\* What one read_line of standard input yields: the bytes of a line with its
\* line ending, or an I/O error.  Past the end of the stream read_line yields
\* Ok with nothing read.
Line(raw) == [ok |-> TRUE, raw |-> raw]

\* The lines a user types: the sentinel, two existing paths (the second as the
\* last line of input, without a line ending), a path that does not exist.
Accepted == { Line(<<"a", "\n">>), Line(<<"b">>) }

\* The answer yes to a yes/no question (any other line is a no).
Yes == Line(<<"Y", "\n">>)

RECURSIVE Rejections(_)
Rejections(n) == IF n = 0 THEN <<>> ELSE Append(Rejections(n - 1), Line(<<"x", "\n">>))

\* The standard input offered to one path prompt: up to MaxLines lines,
\* rejected paths and then the end of input or one line that ends the prompt
\* (input_path reads nothing after it).
Streams ==
    { Rejections(n) : n \in 0..MaxLines }
    \cup { Append(Rejections(n), l) :
             n \in 0..(MaxLines - 1), l \in Accepted \cup {Line(<<"\\", "\r", "\n">>), [ok |-> FALSE, raw |-> <<>>]} }

DropLast(s) == SubSeq(s, 1, Len(s) - 1)

\* utils::input: read one line, strip one trailing "\n" and then one "\r".
input(stream, pos) ==
    IF pos > Len(stream) THEN [ok |-> TRUE, s |-> <<>>]
    ELSE IF ~stream[pos].ok THEN [ok |-> FALSE, s |-> <<>>]
    ELSE LET raw == stream[pos].raw
             s1 == IF raw # <<>> /\ raw[Len(raw)] = "\n" THEN DropLast(raw) ELSE raw
             s2 == IF s1 # <<>> /\ s1[Len(s1)] = "\r" THEN DropLast(s1) ELSE s1
         IN [ok |-> TRUE, s |-> s2]

\* utils::input_yes / input_no: one line, "y" or "yes" in any case is yes.
input_yes(stream, pos) ==
    LET r == input(stream, pos)
    IN [ok |-> r.ok,
        yes |-> r.ok /\ ToLowercase(r.s) \in { <<"y">>, <<"y", "e", "s">> }]

input_no(stream, pos) ==
    LET r == input_yes(stream, pos) IN [ok |-> r.ok, no |-> r.ok /\ ~r.yes]

\* The result of input_path: kind is "ok" (path is the accepted line), "no_path"
\* (the sentinel), "read_error" (input failed) or "hang" (end of input: every
\* further read yields the empty line, which is rejected again, without end).
\* lines are the stripped lines read, reprompts the count of "Path does not
\* exist" prompts printed.
PathResult(kind, path, lines, reprompts) ==
    [kind |-> kind, path |-> path, lines |-> lines, reprompts |-> reprompts]

RECURSIVE input_path_loop(_, _, _, _)
input_path_loop(stream, pos, lines, reprompts) ==
    LET r == input(stream, pos)
    IN IF ~r.ok THEN PathResult("read_error", None, lines, reprompts)
       ELSE IF r.s = Sentinel
         THEN PathResult("no_path", None, Append(lines, r.s), reprompts)
       ELSE IF Exists(r.s)
         THEN PathResult("ok", Some(r.s), Append(lines, r.s), reprompts)
       ELSE IF pos > Len(stream)
         THEN PathResult("hang", None, lines, reprompts)
       ELSE input_path_loop(stream, pos + 1, Append(lines, r.s), reprompts + 1)

\* Variants of input_path that depart from the code, used to show that the
\* properties below depend on it: one that has no sentinel (the "\" line is a
\* path like any other), one that returns the first line typed.
RECURSIVE input_path_loop_no_cancel(_, _, _, _)
input_path_loop_no_cancel(stream, pos, lines, reprompts) ==
    LET r == input(stream, pos)
    IN IF ~r.ok THEN PathResult("read_error", None, lines, reprompts)
       ELSE IF Exists(r.s)
         THEN PathResult("ok", Some(r.s), Append(lines, r.s), reprompts)
       ELSE IF pos > Len(stream)
         THEN PathResult("hang", None, lines, reprompts)
       ELSE input_path_loop_no_cancel(stream, pos + 1, Append(lines, r.s), reprompts + 1)

input_path_no_cancel(stream, pos) == input_path_loop_no_cancel(stream, pos, <<>>, 0)

input_path_stale(stream, pos) ==
    LET r == input_path_loop(stream, pos, <<>>, 0)
    IN IF r.kind = "ok" THEN [r EXCEPT !.path = Some(r.lines[1])] ELSE r

\* utils::input_path, reading from position pos of the stream.
input_path(stream, pos) == input_path_loop(stream, pos, <<>>, 0)

\* ------------------------------------------------------------- Config
\* What the file system does to one File::create + write_all; Config::save
\* runs only after input_path accepted a line.
FsFor(stream) ==
    IF stream # <<>> /\ stream[Len(stream)] \in Accepted 
    THEN {"ok", "create_failed", "write_failed"}
    ELSE {"ok"}

\* Config::save: serialize, File::create (truncates), write_all.  A failed
\* create leaves the file as it was; a failed write leaves the truncated file
\* with the lines written so far (here: none).
save(cd, dsk, fs) ==
    CASE fs = "ok" ->
           [ok |-> TRUE, disk |-> [dsk EXCEPT !.exists = TRUE, !.text = TomlToString(cd)]]
      [] fs = "create_failed" -> [ok |-> FALSE, disk |-> dsk]
      [] fs = "write_failed" ->
           [ok |-> FALSE, disk |-> [dsk EXCEPT !.exists = TRUE, !.text = <<>>]]

\* A variant of Config::update that drops the error of save().
update_ignores_save_error(cd, dsk, fs) ==
    LET sv == save(cd, dsk, fs)
    IN [ok |-> TRUE, cd |-> cd, disk |-> sv.disk,
        save |-> IF sv.ok THEN "ok" ELSE fs]

\* A variant of Config::update that, when save() fails, takes config_data
\* back from what the file holds.
update_reloads_on_error(cd, dsk, fs) ==
    LET sv == save(cd, dsk, fs)
    IN [ok |-> sv.ok,
        cd |-> IF sv.ok THEN cd ELSE TomlFromStr(sv.disk.text).data,
        disk |-> sv.disk,
        save |-> IF sv.ok THEN "ok" ELSE fs]

\* Config::update: the updater has been applied to config_data (cd is its
\* result), then save()?.
update(cd, dsk, fs) ==
    LET sv == save(cd, dsk, fs)
    IN [ok |-> sv.ok, cd |-> cd, disk |-> sv.disk,
        save |-> IF sv.ok THEN "ok" ELSE fs]

\* The outcome of one macro expansion or handler: kind "ok" or the error, path
\* the resolved path (None when nothing was resolved), cd and disk the
\* configuration and file afterwards, prompts the path prompts printed, asked
\* whether a yes/no question was printed, lines the stripped lines read,
\* save what Config::save did ("none" when it was not called).
Outcome(kind, path, cd, dsk, prompts, asked, lines, sv) ==
    [kind |-> kind, path |-> path, cd |-> cd, disk |-> dsk, prompts |-> prompts,
     asked |-> asked, lines |-> lines, save |-> sv]

\* A variant of the updater closure that always builds the section anew.
SetField_replaces_section(cd, sec, fld, p) ==
    [cd EXCEPT ![sec] = Some([DefaultSection(sec) EXCEPT ![fld] = Some(p)])]

\* The updater closure of config_path!.
SetField(cd, sec, fld, p) ==
    IF cd[sec] # None
    THEN [cd EXCEPT ![sec] = Some([cd[sec][1] EXCEPT ![fld] = Some(p)])]
    ELSE [cd EXCEPT ![sec] = Some([DefaultSection(sec) EXCEPT ![fld] = Some(p)])]

\* A variant of config_path! without the already-set branch: it always prompts.
config_path_always_prompts(cd, dsk, sec, fld, stream, pos, fs) ==
    LET ip == input_path(stream, pos)
    IN IF ip.kind # "ok"
       THEN Outcome(ip.kind, None, cd, dsk, 1 + ip.reprompts, FALSE, ip.lines, "none")
       ELSE LET up == update(SetField(cd, sec, fld, ip.path[1]), dsk, fs)
            IN Outcome(IF up.ok THEN "ok" ELSE "write_error",
                       IF up.ok THEN ip.path ELSE None,
                       up.cd, up.disk, 1 + ip.reprompts, FALSE, ip.lines, up.save)

\* A variant of config_path! that reads the configuration file again before
\* it resolves, instead of using the copy loaded at start.
config_path_reloads(cd, dsk, sec, fld, stream, pos, fs) ==
    LET now == TomlFromStr(dsk.text).data
    IN IF now[sec] # None /\ now[sec][1][fld] # None
       THEN Outcome("ok", now[sec][1][fld], now, dsk, 0, FALSE, <<>>, "none")
       ELSE LET ip == input_path(stream, pos)
            IN IF ip.kind # "ok"
               THEN Outcome(ip.kind, None, now, dsk, 1 + ip.reprompts, FALSE, ip.lines, "none")
               ELSE LET up == update(SetField(now, sec, fld, ip.path[1]), dsk, fs)
                    IN Outcome(IF up.ok THEN "ok" ELSE "write_error",
                               IF up.ok THEN ip.path ELSE None,
                               up.cd, up.disk, 1 + ip.reprompts, FALSE, ip.lines, up.save)

\* config_path!(config, sec, Struct, fld, ...), reading from position pos.
config_path(cd, dsk, sec, fld, stream, pos, fs) ==
    IF cd[sec] # None /\ cd[sec][1][fld] # None
    THEN Outcome("ok", cd[sec][1][fld], cd, dsk, 0, FALSE, <<>>, "none")
    ELSE LET ip == input_path(stream, pos)
         IN IF ip.kind # "ok"
            THEN Outcome(ip.kind, None, cd, dsk, 1 + ip.reprompts, FALSE, ip.lines, "none")
            ELSE LET up == update(SetField(cd, sec, fld, ip.path[1]), dsk, fs)
                 IN Outcome(IF up.ok THEN "ok" ELSE "write_error",
                            IF up.ok THEN ip.path ELSE None,
                            up.cd, up.disk, 1 + ip.reprompts, FALSE, ip.lines, up.save)

ProgramsSet(cd) == cd.sync # None /\ cd.sync[1].programs # None

\* A variant of the updater closure of config_sub_path! that always builds
\* the programs record anew.
SetSubField_rebuilds(cd, fld, p) ==
    IF cd.sync # None
    THEN [cd EXCEPT !.sync = Some([cd.sync[1] EXCEPT !.programs =
                         Some([DefaultProgramsConfig EXCEPT ![fld] = Some(p)])])]
    ELSE [cd EXCEPT !.sync = Some([DefaultSyncCliCommand EXCEPT !.programs =
                         Some([DefaultProgramsConfig EXCEPT ![fld] = Some(p)])])]

\* The updater closure of config_sub_path!.
SetSubField(cd, fld, p) ==
    IF ProgramsSet(cd)
    THEN [cd EXCEPT !.sync = Some([cd.sync[1] EXCEPT !.programs =
                         Some([cd.sync[1].programs[1] EXCEPT ![fld] = Some(p)])])]
    ELSE [cd EXCEPT !.sync = Some([DefaultSyncCliCommand EXCEPT !.programs =
                         Some([DefaultProgramsConfig EXCEPT ![fld] = Some(p)])])]

\* config_sub_path!(config, sync, SyncCliCommand, programs, ProgramsConfig, fld, ...).
config_sub_path(cd, dsk, fld, stream, pos, fs) ==
    IF ProgramsSet(cd) /\ cd.sync[1].programs[1][fld] # None
    THEN Outcome("ok", cd.sync[1].programs[1][fld], cd, dsk, 0, FALSE, <<>>, "none")
    ELSE LET ip == input_path(stream, pos)
         IN IF ip.kind # "ok"
            THEN Outcome(ip.kind, None, cd, dsk, 1 + ip.reprompts, FALSE, ip.lines, "none")
            ELSE LET up == update(SetSubField(cd, fld, ip.path[1]), dsk, fs)
                 IN Outcome(IF up.ok THEN "ok" ELSE "write_error",
                            IF up.ok THEN ip.path ELSE None,
                            up.cd, up.disk, 1 + ip.reprompts, FALSE, ip.lines, up.save)

\* SyncCliCommand::pre_sync_programs_cargo / _nix / _vscode, for their field.
pre_sync_programs_field(cd, dsk, useInput, fld, stream, fs) ==
    IF ~useInput THEN Outcome("ok", None, cd, dsk, 0, FALSE, <<>>, "none")
    ELSE IF ProgramsSet(cd) /\ cd.sync[1].programs[1][fld] = None
    THEN LET answer == input_no(stream, 1)
         IN IF ~answer.ok
            THEN Outcome("read_error", None, cd, dsk, 0, TRUE, <<>>, "none")
            ELSE IF answer.no
            THEN Outcome("ok", None, cd, dsk, 0, TRUE, <<input(stream, 1).s>>, "none")
            ELSE LET r == config_sub_path(cd, dsk, fld, stream, 2, fs)
                 IN [r EXCEPT !.asked = TRUE, !.lines = <<input(stream, 1).s>> \o r.lines]
    ELSE config_sub_path(cd, dsk, fld, stream, 1, fs)

\* A variant of the updater closure of add_file that puts the path first.
PushFile_prepends(cd, p) ==
    IF cd.sync # None
    THEN [cd EXCEPT !.sync = Some([cd.sync[1] EXCEPT !.file_paths = <<p>> \o @])]
    ELSE [cd EXCEPT !.sync = Some([DefaultSyncCliCommand EXCEPT !.file_paths = <<p>>])]

\* The updater closure of add_file.
PushFile(cd, p) ==
    IF cd.sync # None
    THEN [cd EXCEPT !.sync = Some([cd.sync[1] EXCEPT !.file_paths = Append(@, p)])]
    ELSE [cd EXCEPT !.sync = Some([DefaultSyncCliCommand EXCEPT !.file_paths = <<p>>])]

\* A variant of add_file that pushes the path in memory and does not save.
add_file_unsaved(cd, dsk, stream, fs) ==
    LET ip == input_path(stream, 1)
    IN IF ip.kind # "ok"
       THEN Outcome(ip.kind, None, cd, dsk, 1 + ip.reprompts, FALSE, ip.lines, "none")
       ELSE Outcome("ok", None, PushFile(cd, ip.path[1]), dsk,
                    1 + ip.reprompts, FALSE, ip.lines, "none")

\* SyncCliCommand::add_file.
add_file(cd, dsk, stream, fs) ==
    LET ip == input_path(stream, 1)
    IN IF ip.kind # "ok"
       THEN Outcome(ip.kind, None, cd, dsk, 1 + ip.reprompts, FALSE, ip.lines, "none")
       ELSE LET up == update(PushFile(cd, ip.path[1]), dsk, fs)
            IN Outcome(IF up.ok THEN "ok" ELSE "write_error", None,
                       up.cd, up.disk, 1 + ip.reprompts, FALSE, ip.lines, up.save)

\* ------------------------------------------------------------- state
VARIABLES
    disk,        \* the configuration file: [dir, exists, text]
    pc,          \* "start" (no process), "running", "exited", "hung"
    config_data, \* Config.config_data of the running invocation
    use_input,   \* Config.use_input
    warned,      \* stderr of this invocation carries "Using default config"
    last,        \* what the last operation did and returned
    handed,      \* per config_path! call site, the path a caller was last given
    ops,         \* operations performed so far
    threads,     \* sync_all: the main thread's position and the spawned jobs
    fetch,       \* the GitHub fetch loop: its locals, the requests and responses
    mirror,      \* save_files: the file system it reads and writes
    call,        \* a command that computes from its input: input and result
    other        \* a second invocation running beside this one: its Config

vars == <<disk, pc, config_data, use_input, warned, last, handed, ops,
          threads, fetch, mirror, call, other>>

\* A subcommand that is not running.
Idle == [pc |-> "idle"]

\* The variables of the subcommands other than the one a step belongs to.
subcommands == <<threads, fetch, mirror, call, other>>

\* Call sites of config_path!, as <<section, field>>: get_movie_path,
\* sync_movies, pre_save_files, save_pulls, get_music_file_path.  (save_projects
\* and sync_music expand the same macro for gh.file_projects and music.env_path.)
ConfigPathSites ==
    { <<"movies", "file_path">>, <<"movies", "public_file_path">>,
      <<"sync", "save_folder_path">>,
      <<"gh", "file_pulls">>,
      <<"music", "music_file">> }

ProgramsFields == {"cargo_programs", "vscode_extensions", "nix"}

\* Configuration files found on disk at the first invocation: the empty
\* configuration, one with only the sync section (no programs record), one
\* with every section and some fields of each set, one whose sections are
\* there with no field set.
SyncOnlyConfig ==
    [DefaultConfigData EXCEPT !.sync =
        Some([file_paths |-> << <<"a">> >>, save_folder_path |-> Some(<<"b">>),
              programs |-> None])]

FullConfig ==
    [movies |-> Some([file_path |-> Some(<<"a">>), public_file_path |-> None]),
     sync |-> Some([file_paths |-> << <<"b">> >>, save_folder_path |-> Some(<<"a">>),
                    programs |-> Some([DefaultProgramsConfig EXCEPT
                                          !.nix = Some(<<"b">>)])]),
     gh |-> Some([username |-> Some(<<"u">>), file_pulls |-> Some(<<"b">>),
                  file_projects |-> None]),
     music |-> Some([music_file |-> Some(<<"a">>), env_path |-> None])]

InitConfigs ==
    {DefaultConfigData, SyncOnlyConfig, FullConfig,
     [DefaultConfigData EXCEPT !.movies = Some(DefaultMovies),
                               !.music = Some(DefaultMusicCliCommand)]}

\* Hand-edited files toml::from_str rejects: user settings followed by a line
\* that is not TOML, a [sync] table without file_paths.
InitTexts ==
    {TomlToString(cd) : cd \in InitConfigs}
    \cup { <<TableLine("movies"), StrLine("file_path", <<"a">>), JunkLine>>,
           <<TableLine("sync"), StrLine("save_folder_path", <<"b">>)>> }

InitDisks ==
    { [dir |-> FALSE, exists |-> FALSE, text |-> <<>>],
      [dir |-> TRUE, exists |-> FALSE, text |-> <<>>] }
    \cup { [dir |-> TRUE, exists |-> TRUE, text |-> t] : t \in InitTexts }

Last(op, sec, fld, r) ==
    [op |-> op, sec |-> sec, fld |-> fld, kind |-> r.kind, path |-> r.path,
     prompts |-> r.prompts, asked |-> r.asked, lines |-> r.lines, save |-> r.save]

NoOutcome(kind) == Outcome(kind, None, DefaultConfigData, disk, 0, FALSE, <<>>, "none")

Init ==
    /\ disk \in InitDisks
    /\ pc = "start"
    /\ config_data = DefaultConfigData
    /\ use_input = TRUE
    /\ warned = FALSE
    /\ last = Last("none", "", "", NoOutcome("ok"))
    /\ handed = [site \in ConfigPathSites |-> None]
    /\ ops = 0
    /\ call = Idle
    /\ other = Idle
    /\ threads = Idle
    /\ fetch = Idle
    /\ mirror = Idle

\* ------------------------------------------------------------- loading
\* The process has loaded its configuration.
Loaded(op, text) ==
    \E c \in { parse_config(text) } :
       /\ pc' = "running"
       /\ config_data' = c.config_data
       /\ use_input' = c.use_input
       /\ warned' = c.warned
       /\ last' = Last(op, "", "", NoOutcome("ok"))

\* The process has ended before it had a configuration.
NotLoaded(op, kind) ==
    /\ pc' = "exited"
    /\ config_data' = DefaultConfigData
    /\ use_input' = TRUE
    /\ warned' = FALSE
    /\ last' = Last(op, "", "", NoOutcome(kind))

\* A process starts: Config::new_from_path(custom_path); read_to_string fails
\* on a file that is not there or cannot be read.
NewFromPath ==
    /\ pc \in {"start", "exited"}
    /\ \E readable \in BOOLEAN :
          IF disk.exists /\ readable
          THEN Loaded("new_from_path", disk.text)
          ELSE NotLoaded("new_from_path", "read_error")
    /\ UNCHANGED <<disk, handed, ops, subcommands>>

\* A variant of get_config_path without the exists() test: it always creates
\* (and so truncates) the file.
get_config_path_truncates(dsk, env) ==
    CASE env = "no_home" -> [ok |-> FALSE, disk |-> dsk]
      [] env = "mkdir_failed" -> [ok |-> FALSE, disk |-> dsk]
      [] env = "create_failed" -> [ok |-> FALSE, disk |-> [dsk EXCEPT !.dir = TRUE]]
      [] OTHER -> [ok |-> TRUE, disk |-> [dir |-> TRUE, exists |-> TRUE, text |-> <<>>]]

\* Config::get_config_path: home_dir, create_dir_all, File::create if the
\* file is not there.
get_config_path(dsk, env) ==
    CASE env = "no_home" -> [ok |-> FALSE, disk |-> dsk]
      [] env = "mkdir_failed" -> [ok |-> FALSE, disk |-> dsk]
      [] env = "create_failed" /\ ~dsk.exists ->
           [ok |-> FALSE, disk |-> [dsk EXCEPT !.dir = TRUE]]
      [] OTHER ->
           [ok |-> TRUE,
            disk |-> IF dsk.exists THEN [dsk EXCEPT !.dir = TRUE]
                     ELSE [dir |-> TRUE, exists |-> TRUE, text |-> <<>>]]

\* A process starts: Config::new(), which panics where new_from_path errs.
New ==
    /\ pc \in {"start", "exited"}
    /\ \E env \in {"ok", "no_home", "mkdir_failed", "create_failed", "read_failed"} :
          LET got == get_config_path(disk, env)
          IN /\ disk' = got.disk
             /\ IF got.ok /\ env # "read_failed"
                THEN Loaded("new", got.disk.text)
                ELSE NotLoaded("new", "panic")
    /\ UNCHANGED <<handed, ops, subcommands>>

\* ------------------------------------------------------------- operations
\* The effect of a handler's outcome r on the process: an error propagates to
\* cli_main and the process exits; at end of input the re-prompt loop never ends.
Apply(op, sec, fld, r) ==
    /\ config_data' = r.cd
    /\ disk' = r.disk
    /\ pc' = CASE r.kind = "ok" -> "running"
               [] r.kind = "hang" -> "hung"
               [] OTHER -> "exited"
    /\ last' = Last(op, sec, fld, r)
    /\ ops' = ops + 1
    /\ UNCHANGED <<use_input, warned, subcommands>>

\* The ghost handed after a handler: a failed save ends what the file holds
\* of earlier answers.
Handed(r, given) ==
    IF r.save \in {"create_failed", "write_failed"}
    THEN [s \in ConfigPathSites |-> None]
    ELSE given

FieldSet(cd, sec, fld) == cd[sec] # None /\ cd[sec][1][fld] # None

\* The input offered to a handler matters only where it reads.
StreamsIf(reads) == IF reads THEN Streams ELSE { <<>> }

\* A caller of config_path! (get_movie_path, pre_save_files, save_pulls, ...).
Resolve ==
    /\ pc = "running"
    /\ ops < MaxOps
    /\ \E site \in ConfigPathSites :
       \E stream \in StreamsIf(~FieldSet(config_data, site[1], site[2])) :
       \E fs \in FsFor(stream) :
       \E r \in { config_path(config_data, disk, site[1], site[2], stream, 1, fs) } :
             /\ Apply("config_path", site[1], site[2], r)
             /\ handed' = Handed(r, IF r.kind = "ok" THEN [handed EXCEPT ![site] = r.path]
                                    ELSE handed)

SubFieldSet(cd, fld) == ProgramsSet(cd) /\ cd.sync[1].programs[1][fld] # None

\* The input offered to pre_sync_programs_<field>: a yes/no answer first
\* where it asks, path lines where it prompts.
PreSyncStreams(cd, useInput, fld) ==
    IF ~useInput \/ SubFieldSet(cd, fld) THEN { <<>> }
    ELSE IF ProgramsSet(cd) THEN Streams \cup {<<Yes>> \o st : st \in Streams}
    ELSE Streams

PreSyncPrograms(fld) ==
    /\ pc = "running"
    /\ ops < MaxOps
    /\ \E stream \in PreSyncStreams(config_data, use_input, fld) :
       \E fs \in FsFor(stream) :
       \E r \in { pre_sync_programs_field(config_data, disk, use_input, fld, stream, fs) } :
             /\ Apply("pre_sync_programs", "sync", fld, r)
             /\ handed' = Handed(r, handed)

FilePaths(cd) == IF cd.sync = None THEN <<>> ELSE cd.sync[1].file_paths

AddFile ==
    /\ pc = "running"
    /\ ops < MaxOps
    /\ Len(FilePaths(config_data)) < MaxFiles
    /\ \E stream \in Streams : \E fs \in FsFor(stream) :
       \E r \in { add_file(config_data, disk, stream, fs) } :
             /\ Apply("add_file", "sync", "file_paths", r)
             /\ handed' = Handed(r, handed)

\* The subcommand returns Ok and the process ends.
Exit ==
    /\ pc = "running"
    /\ pc' = "exited"
    /\ last' = Last("exit", "", "", NoOutcome("ok"))
    /\ UNCHANGED <<disk, config_data, use_input, warned, handed, ops, subcommands>>

Next ==
    \/ NewFromPath
    \/ New
    \/ Resolve
    \/ PreSyncPrograms("cargo_programs")
    \/ PreSyncPrograms("nix")
    \/ PreSyncPrograms("vscode_extensions")
    \/ AddFile
    \/ Exit

Spec == Init /\ [][Next]_vars

\* ------------------------------------------------------------- round trip
\* Every ConfigData within the bounds: each section absent or present, each
\* Option<String> field None or Some, sync.file_paths a list of up to MaxPaths
\* paths, sync.programs absent or present.
OptStrings == {None, Some(<<"a">>)}

AllConfigData ==
    [movies : {None} \cup {Some(m) : m \in [file_path : OptStrings,
                                           public_file_path : OptStrings]},
     sync : {None} \cup
            {Some(c) : c \in
               [file_paths : {SubSeq(<<<<"a">>, <<"b">>, <<"a">>, <<"b">>>>, 1, n) :
                                 n \in 0..MaxPaths},
                save_folder_path : OptStrings,
                programs : {None} \cup
                           {Some(p) : p \in [cargo_programs : OptStrings,
                                             vscode_extensions : OptStrings,
                                             nix : OptStrings]}]},
     gh : {None} \cup {Some(g) : g \in [username : OptStrings, file_pulls : OptStrings,
                                       file_projects : OptStrings]},
     music : {None} \cup {Some(m) : m \in [music_file : OptStrings,
                                          env_path : OptStrings]}]

\* A Config holding any ConfigData, its file not yet written.
RoundTripInit ==
    /\ disk = [dir |-> TRUE, exists |-> FALSE, text |-> <<>>]
    /\ pc = "built"
    /\ config_data \in AllConfigData
    /\ use_input = TRUE
    /\ warned = FALSE
    /\ last = Last("none", "", "", NoOutcome("ok"))
    /\ handed = [site \in ConfigPathSites |-> None]
    /\ ops = 0
    /\ call = Idle
    /\ other = Idle
    /\ threads = Idle
    /\ fetch = Idle
    /\ mirror = Idle

\* Config::save of the ConfigData.
RoundTripSave ==
    /\ pc = "built"
    /\ disk' = save(config_data, disk, "ok").disk
    /\ pc' = "saved"
    /\ last' = Last("save", "", "", NoOutcome("ok"))
    /\ UNCHANGED <<config_data, use_input, warned, handed, ops, subcommands>>

\* Config::parse_config of the text that was written.
RoundTripParse ==
    /\ pc = "saved"
    /\ \E c \in { parse_config(disk.text) } :
          /\ config_data' = c.config_data
          /\ use_input' = c.use_input
          /\ warned' = c.warned
    /\ pc' = "parsed"
    /\ last' = Last("parse_config", "", "", NoOutcome("ok"))
    /\ UNCHANGED <<disk, handed, ops, subcommands>>

RoundTripNext == RoundTripSave \/ RoundTripParse

SpecRoundTrip == RoundTripInit /\ [][RoundTripNext]_vars

\* ------------------------------------------------------------- paths
\* A PathBuf is the tuple of its components, each a String, the first being
\* Root when the path is absolute.
Root == <<"/">>

\* The names of a path string: its pieces between separators.
RECURSIVE Names(_)
Names(s) ==
    IF s = <<>> THEN <<>>
    ELSE IF s[1] = "/" THEN Names(Tail(s))
    ELSE LET seps == {i \in 1..Len(s) : s[i] = "/"}
             n == IF seps = {} THEN Len(s) + 1
                  ELSE CHOOSE i \in seps : \A j \in seps : i <= j
         IN <<SubSeq(s, 1, n - 1)>> \o Names(SubSeq(s, n, Len(s)))

\* PathBuf::from(&String).
PathBufFrom(s) == IF s # <<>> /\ s[1] = "/" THEN <<Root>> \o Names(s) ELSE Names(s)

StartsWith(p, base) == Len(base) <= Len(p) /\ SubSeq(p, 1, Len(base)) = base

\* Path::strip_prefix: Ok(the rest) when base is a prefix of p, else Err.
strip_prefix(p, base) ==
    IF StartsWith(p, base)
    THEN [ok |-> TRUE, path |-> SubSeq(p, Len(base) + 1, Len(p))]
    ELSE [ok |-> FALSE, path |-> <<>>]

\* Path::join: an absolute p replaces base.
join(base, p) == IF p # <<>> /\ p[1] = Root THEN p ELSE base \o p

\* ------------------------------------------------------------- save_files
\* home::home_dir() of get_home_path: the home directory /h, or none.
HomeDir == <<Root, <<"h">>>>

\* The files of the file system: a function from the paths of the files
\* that exist to their contents.
WriteFile(files, p, content) == (p :> content) @@ [q \in DOMAIN files \ {p} |-> files[q]]

\* What the file system does to the k-th file save_files copies: nothing
\* (at = 0), or create_dir_all or File::create fails there.
IoOutcomes ==
    {[at |-> 0, what |-> "ok"]}
    \cup [at : 1..MaxMirror, what : {"mkdir_failed", "create_failed"}]

\* The result of save_files: kind "ok" or the error, the files afterwards,
\* created the paths it created or overwrote, in order.
MirrorResult(kind, files, created) == [kind |-> kind, files |-> files, created |-> created]

\* The loop of save_files over the relative paths, from the k-th on.
RECURSIVE save_files_loop(_, _, _, _, _, _, _)
save_files_loop(files_path, k, home, folder_path, files, created, io) ==
    IF k > Len(files_path) THEN MirrorResult("ok", files, created)
    ELSE LET file_path_to_save == files_path[k]
             source_path == join(home, file_path_to_save)
             save_path == join(folder_path, file_path_to_save)
         IN IF source_path \notin DOMAIN files
            THEN MirrorResult("open_failed", files, created)
            ELSE IF io.at = k /\ io.what = "mkdir_failed"
            THEN MirrorResult("mkdir_failed", files, created)
            ELSE IF io.at = k /\ io.what = "create_failed"
            THEN MirrorResult("create_failed", files, created)
            ELSE LET truncated == WriteFile(files, save_path, <<>>)
                     copied == WriteFile(truncated, save_path, truncated[source_path])
                 IN save_files_loop(files_path, k + 1, home, folder_path, copied,
                                    Append(created, save_path), io)

\* get_config_path!(config, sec, Struct, fld, ..): the path or "is not set".
get_config_path_macro(cd, sec, fld) ==
    IF cd[sec] # None /\ cd[sec][1][fld] # None
    THEN [ok |-> TRUE, path |-> PathBufFrom(cd[sec][1][fld][1])]
    ELSE [ok |-> FALSE, path |-> <<>>]

\* SyncCliCommand::save_files.
save_files(cd, home, files, io) ==
    LET folder_path == get_config_path_macro(cd, "sync", "save_folder_path")
    IN IF ~folder_path.ok THEN MirrorResult("not_set", files, <<>>)
       ELSE IF home = None THEN MirrorResult("no_home", files, <<>>)
       ELSE LET configured == IF cd.sync = None THEN <<>> ELSE cd.sync[1].file_paths
                files_path ==
                    [i \in 1..Len(configured) |->
                        LET path == PathBufFrom(configured[i])
                            stripped == strip_prefix(path, home[1])
                        IN IF stripped.ok THEN stripped.path ELSE path]
            IN save_files_loop(files_path, 1, home[1], folder_path.path, files, <<>>, io)

\* The subcommand `sync settings all`: pre_save_files, then save_files.
\* The path strings a user has configured: a file under the home directory,
\* an absolute path outside it, a path relative to the home directory (s/f),
\* a file under the home directory that is not there (/h/m).
UnderHome == <<"/", "h", "/", "f">>

OutsideHome == <<"/", "e", "/", "g">>

SourceStrings == {UnderHome, OutsideHome, <<"s", "/", "f">>, <<"/", "h", "/", "m">>}

RECURSIVE ListsUpTo(_, _)
ListsUpTo(S, n) ==
    IF n = 0 THEN {<<>>}
    ELSE LET shorter == ListsUpTo(S, n - 1)
         IN shorter \cup {Append(l, x) : l \in shorter, x \in S}

\* The files there before the call: the sources, and an older copy of one.
MirrorFiles ==
    (PathBufFrom(UnderHome) :> <<"1">>)
      @@ (PathBufFrom(OutsideHome) :> <<"2">>)
      @@ (<<Root, <<"h">>, <<"s">>, <<"f">>>> :> <<"3">>)
      @@ (<<Root, <<"d">>, <<"f">>>> :> <<"0">>)

MirrorConfigs ==
    {[DefaultConfigData EXCEPT !.sync =
         Some([file_paths |-> l, save_folder_path |-> f, programs |-> None])] :
       l \in ListsUpTo(SourceStrings, MaxMirror), f \in {None, Some(<<"/", "d">>)}}   \* the folder /d
    \cup {DefaultConfigData}

MirrorInit ==
    /\ config_data \in MirrorConfigs
    /\ disk = [dir |-> TRUE, exists |-> TRUE, text |-> TomlToString(config_data)]
    /\ pc = "running"
    /\ use_input = TRUE
    /\ warned = FALSE
    /\ last = Last("new", "", "", NoOutcome("ok"))
    /\ handed = [site \in ConfigPathSites |-> None]
    /\ ops = 0
    /\ call = Idle
    /\ other = Idle
    /\ threads = Idle
    /\ fetch = Idle
    /\ mirror \in [pc : {"pre_save_files"}, home : {Some(HomeDir), None}, files : {MirrorFiles},
                   before : {MirrorFiles}, kind : {"none"}, created : {<<>>}]

\* SyncCliCommand::pre_save_files, the first half of `sync settings all`.
MirrorPreSaveFiles ==
    /\ pc = "running"
    /\ mirror.pc = "pre_save_files"
    /\ \E stream \in StreamsIf(~FieldSet(config_data, "sync", "save_folder_path")) :
       \E fs \in FsFor(stream) :
       \E r \in { config_path(config_data, disk, "sync", "save_folder_path", stream, 1, fs) } :
             /\ config_data' = r.cd
             /\ disk' = r.disk
             /\ pc' = CASE r.kind = "ok" -> "running"
                        [] r.kind = "hang" -> "hung"
                        [] OTHER -> "exited"
             /\ last' = Last("pre_save_files", "sync", "save_folder_path", r)
             /\ mirror' = [mirror EXCEPT !.pc = IF r.kind = "ok" THEN "save_files" ELSE "failed"]
    /\ UNCHANGED <<use_input, warned, handed, ops, call, other, threads, fetch>>

\* SyncCliCommand::save_files, the second half; then the process ends.
MirrorSaveFiles ==
    /\ pc = "running"
    /\ mirror.pc = "save_files"
    /\ \E io \in IoOutcomes :
       \E r \in { save_files(config_data, mirror.home, mirror.files, io) } :
             /\ mirror' = [mirror EXCEPT !.pc = "done", !.files = r.files,
                                         !.before = mirror.files,
                                         !.kind = r.kind, !.created = r.created]
             /\ last' = Last("save_files", "sync", "file_paths", NoOutcome(r.kind))
    /\ pc' = "exited"
    /\ UNCHANGED <<config_data, disk, use_input, warned, handed, ops, call, other, threads, fetch>>

MirrorNext == MirrorPreSaveFiles \/ MirrorSaveFiles

SpecMirror == MirrorInit /\ [][MirrorNext]_vars

\* ------------------------------------------------------------- sync_all
\* Two macro expansions or handlers in sequence (the second after `?`).
AndThen(r1, r2) ==
    [r2 EXCEPT !.prompts = r1.prompts + r2.prompts,
               !.lines = r1.lines \o r2.lines,
               !.asked = r1.asked \/ r2.asked,
               !.save = IF r2.save = "none" THEN r1.save ELSE r2.save]

\* SyncCliCommand::pre_sync_programs: cargo, nix, vscode, each after the `?`
\* of the one before.  r is the outcome so far; the handler of fld runs when
\* r is not an error.
pre_sync_programs_next(r, useInput, fld, stream, fs) ==
    IF r.kind # "ok" THEN r
    ELSE AndThen(r, pre_sync_programs_field(r.cd, r.disk, useInput, fld, stream, fs))

\* Movies::pre_sync_movies and Gh::pre_sync_github, which sync_all calls: the
\* resolve of each path the section's jobs need, the second after the first.
pre_sync_two(cd, dsk, sec, fld1, fld2, streams, fss) ==
    LET r1 == config_path(cd, dsk, sec, fld1, streams[1], 1, fss[1])
    IN IF r1.kind # "ok" THEN r1
       ELSE AndThen(r1, config_path(r1.cd, r1.disk, sec, fld2, streams[2], 1, fss[2]))

\* get_config_sub_path!(config, sync, SyncCliCommand, programs, ProgramsConfig,
\* fld, ..): the path or "is not set".
get_config_sub_path_macro(cd, fld) ==
    IF ProgramsSet(cd) /\ cd.sync[1].programs[1][fld] # None
    THEN [ok |-> TRUE, path |-> PathBufFrom(cd.sync[1].programs[1][fld][1])]
    ELSE [ok |-> FALSE, path |-> <<>>]

\* What a job did: kind "ok" or its error, the configuration and its file
\* afterwards, the prompts it printed and lines it read, the outputs it wrote.
JobResult(kind, cd, dsk, prompts, lines, wrote) ==
    [kind |-> kind, path |-> None, cd |-> cd, disk |-> dsk, prompts |-> prompts,
     asked |-> FALSE, lines |-> lines, save |-> "none", wrote |-> wrote]

\* What the system does to one job: its command cannot be spawned, its
\* output file cannot be written, or neither.
JobOutcomes == {"ok", "spawn_failed", "write_failed"}

\* A variant of the job that asks for the path it does not find.
sync_programs_field_prompts(cd, dsk, fld, sys) ==
    IF ~get_config_sub_path_macro(cd, fld).ok
    THEN JobResult("not_set", cd, dsk, 1, <<>>, {})
    ELSE IF sys # "ok" THEN JobResult(sys, cd, dsk, 0, <<>>, {})
    ELSE JobResult("ok", cd, dsk, 0, <<>>, {fld})

\* SyncCliCommand::sync_programs_cargo / _nix / _vscode, for their field.
sync_programs_field(cd, dsk, fld, sys) ==
    IF ~get_config_sub_path_macro(cd, fld).ok
    THEN JobResult("not_set", cd, dsk, 0, <<>>, {})
    ELSE IF sys # "ok" THEN JobResult(sys, cd, dsk, 0, <<>>, {})
    ELSE JobResult("ok", cd, dsk, 0, <<>>, {fld})

\* Two jobs in sequence: the second after the `?` of the first.
JobThen(j1, j2) == [j2 EXCEPT !.prompts = j1.prompts + j2.prompts,
                              !.lines = j1.lines \o j2.lines,
                              !.wrote = j1.wrote \cup j2.wrote]

\* SyncCliCommand::sync_programs: cargo, nix, vscode; sys gives each its
\* outcome.
sync_programs(cd, dsk, sys) ==
    LET j1 == sync_programs_field(cd, dsk, "cargo_programs", sys.cargo_programs)
    IN IF j1.kind # "ok" THEN j1
       ELSE LET j2 == JobThen(j1, sync_programs_field(j1.cd, j1.disk, "nix", sys.nix))
            IN IF j2.kind # "ok" THEN j2
               ELSE JobThen(j2, sync_programs_field(j2.cd, j2.disk, "vscode_extensions",
                                                    sys.vscode_extensions))

\* The jobs of sync_all that take the two paths of movies and the one path
\* each of gh from the configuration they are given.
job_with_paths(cd, dsk, sec, flds, name, sys) ==
    IF \E fld \in flds : ~get_config_path_macro(cd, sec, fld).ok
    THEN JobResult("not_set", cd, dsk, 0, <<>>, {})
    ELSE IF sys # "ok" THEN JobResult(sys, cd, dsk, 0, <<>>, {})
    ELSE JobResult("ok", cd, dsk, 0, <<>>, {name})

\* The threads of sync_all.
Jobs == {"sync_movies", "save_files", "sync_programs", "save_pulls", "save_projects"}

\* A configuration with every path of every section set.
AllSetConfig ==
    [movies |-> Some([file_path |-> Some(<<"a">>), public_file_path |-> Some(<<"b">>)]),
     sync |-> Some([file_paths |-> << <<"a">> >>, save_folder_path |-> Some(<<"b">>),
                    programs |-> Some([cargo_programs |-> Some(<<"a">>),
                                       vscode_extensions |-> Some(<<"b">>),
                                       nix |-> Some(<<"a">>)])]),
     gh |-> Some([username |-> None, file_pulls |-> Some(<<"a">>),
                  file_projects |-> Some(<<"b">>)]),
     music |-> None]

\* The files save_files finds under the home directory: a, not b.
SyncAllFiles == (<<Root, <<"h">>, <<"a">>>> :> <<"1">>)

\* `sync all` is invoked on a loaded configuration.
SyncAllInit ==
    /\ config_data \in InitConfigs \cup {AllSetConfig}
    /\ disk = [dir |-> TRUE, exists |-> TRUE, text |-> TomlToString(config_data)]
    /\ pc = "running"
    /\ use_input = TRUE
    /\ warned = FALSE
    /\ last = Last("new", "", "", NoOutcome("ok"))
    /\ handed = [site \in ConfigPathSites |-> None]
    /\ ops = 0
    /\ threads = [pc |-> "sync_all", jobs |-> [j \in Jobs |-> "none"],
                  result |-> "none", wrote |-> {},
                  sys |-> [f \in ProgramsFields |-> "ok"]]
    /\ call = Idle
    /\ other = Idle
    /\ fetch = Idle
    /\ mirror = [pc |-> "job", home |-> Some(HomeDir), files |-> SyncAllFiles,
                 before |-> SyncAllFiles, kind |-> "none", created |-> <<>>]

\* The main thread after one of the pre_ handlers returned r: `?` returns an
\* error from sync_all.
MainThread(op, r, next) ==
    /\ config_data' = r.cd
    /\ disk' = r.disk
    /\ last' = Last(op, "", "", r)
    /\ pc' = CASE r.kind = "ok" -> "running"
               [] r.kind = "hang" -> "hung"
               [] OTHER -> "exited"
    /\ threads' = CASE r.kind = "ok" -> [threads EXCEPT !.pc = next]
                    [] r.kind = "hang" -> [threads EXCEPT !.pc = "hung"]
                    [] OTHER -> [threads EXCEPT !.pc = "returned", !.result = "error"]
    /\ UNCHANGED <<warned, handed, ops, call, other, fetch, mirror>>

Skipped == Outcome("ok", None, config_data, disk, 0, FALSE, <<>>, "none")

\* sync_all, up to its first pre_ handler: config.use_input = false.
SyncAllBegin ==
    /\ pc = "running" /\ threads.pc = "sync_all"
    /\ use_input' = FALSE
    /\ threads' = [threads EXCEPT !.pc = "pre_sync_movies"]
    /\ last' = Last("sync_all", "", "", Skipped)
    /\ UNCHANGED <<config_data, disk, pc, warned, handed, ops, call, other, fetch, mirror>>

\* if movies.is_some() { Movies::pre_sync_movies(config)?; }
SyncAllPreSyncMovies ==
    /\ pc = "running" /\ threads.pc = "pre_sync_movies"
    /\ UNCHANGED use_input
    /\ IF config_data.movies = None
       THEN MainThread("pre_sync_movies", Skipped, "pre_save_files")
       ELSE \E s1 \in StreamsIf(~FieldSet(config_data, "movies", "file_path")) :
            \E s2 \in StreamsIf(~FieldSet(config_data, "movies", "public_file_path")) :
            \E f1 \in FsFor(s1) : \E f2 \in FsFor(s2) :
            \E r \in { pre_sync_two(config_data, disk, "movies", "file_path",
                                   "public_file_path", <<s1, s2>>, <<f1, f2>>) } :
               MainThread("pre_sync_movies", r, "pre_save_files")

\* if sync.is_some() { pre_save_files(config)?; ... }
SyncAllPreSaveFiles ==
    /\ pc = "running" /\ threads.pc = "pre_save_files"
    /\ UNCHANGED use_input
    /\ IF config_data.sync = None
       THEN MainThread("pre_save_files", Skipped, "pre_sync_github")
       ELSE \E stream \in StreamsIf(~FieldSet(config_data, "sync", "save_folder_path")) :
            \E fs \in FsFor(stream) :
            \E r \in { config_path(config_data, disk, "sync", "save_folder_path",
                                   stream, 1, fs) } :
               MainThread("pre_save_files", r, "pre_sync_programs")

\* The input pre_sync_programs offers the handler of fld after outcome r.
ProgramsStreams(r, useInput, fld) ==
    IF r.kind # "ok" THEN { <<>> } ELSE PreSyncStreams(r.cd, useInput, fld)

\* if sync.is_some() { ...; pre_sync_programs(config)?; }
SyncAllPreSyncPrograms ==
    /\ pc = "running" /\ threads.pc = "pre_sync_programs"
    /\ UNCHANGED use_input
    /\ \E s1 \in ProgramsStreams(Skipped, use_input, "cargo_programs") :
       \E f1 \in FsFor(s1) :
       \E r1 \in { pre_sync_programs_next(Skipped, use_input, "cargo_programs", s1, f1) } :
       \E s2 \in ProgramsStreams(r1, use_input, "nix") :
       \E f2 \in FsFor(s2) :
       \E r2 \in { pre_sync_programs_next(r1, use_input, "nix", s2, f2) } :
       \E s3 \in ProgramsStreams(r2, use_input, "vscode_extensions") :
       \E f3 \in FsFor(s3) :
       \E r3 \in { pre_sync_programs_next(r2, use_input, "vscode_extensions", s3, f3) } :
          MainThread("pre_sync_programs", r3, "pre_sync_github")

\* if gh.is_some() { Gh::pre_sync_github(config)?; }
SyncAllPreSyncGithub ==
    /\ pc = "running" /\ threads.pc = "pre_sync_github"
    /\ UNCHANGED use_input
    /\ IF config_data.gh = None
       THEN MainThread("pre_sync_github", Skipped, "spawn")
       ELSE \E s1 \in StreamsIf(~FieldSet(config_data, "gh", "file_pulls")) :
            \E s2 \in StreamsIf(~FieldSet(config_data, "gh", "file_projects")) :
            \E f1 \in FsFor(s1) : \E f2 \in FsFor(s2) :
            \E r \in { pre_sync_two(config_data, disk, "gh", "file_pulls",
                                   "file_projects", <<s1, s2>>, <<f1, f2>>) } :
               MainThread("pre_sync_github", r, "spawn")

\* thread::scope: the jobs of the sections that are there are spawned.
Spawned(cd, j) ==
    CASE j = "sync_movies" -> cd.movies # None
      [] j \in {"save_files", "sync_programs"} -> cd.sync # None
      [] j \in {"save_pulls", "save_projects"} -> cd.gh # None

SyncAllSpawn ==
    /\ pc = "running" /\ threads.pc = "spawn"
    /\ threads' = [threads EXCEPT !.pc = "scope",
                      !.jobs = [j \in Jobs |-> IF Spawned(config_data, j)
                                               THEN "running" ELSE "none"]]
    /\ last' = Last("spawn", "", "", Skipped)
    /\ UNCHANGED <<config_data, disk, pc, use_input, warned, handed, ops, call, other, fetch, mirror>>

\* A spawned job ran to its end with result r.
JobDone(j, r) ==
    /\ config_data' = r.cd
    /\ disk' = r.disk
    /\ last' = Last(j, "", "", r)
    /\ UNCHANGED <<pc, use_input, warned, handed, ops, call, other, fetch>>

JobSyncMovies ==
    /\ threads.pc = "scope" /\ threads.jobs["sync_movies"] = "running"
    /\ \E sys \in JobOutcomes :
       \E r \in { job_with_paths(config_data, disk, "movies",
                                  {"file_path", "public_file_path"}, "movies", sys) } :
          /\ JobDone("sync_movies", r)
          /\ threads' = [threads EXCEPT !.jobs["sync_movies"] = r.kind,
                                        !.wrote = @ \cup r.wrote]
    /\ UNCHANGED mirror

JobSaveFiles ==
    /\ threads.pc = "scope" /\ threads.jobs["save_files"] = "running"
    /\ \E io \in IoOutcomes :
       \E m \in { save_files(config_data, mirror.home, mirror.files, io) } :
          /\ JobDone("save_files", JobResult(m.kind, config_data, disk, 0, <<>>, {}))
          /\ threads' = [threads EXCEPT !.jobs["save_files"] = m.kind]
          /\ mirror' = [mirror EXCEPT !.files = m.files, !.before = mirror.files,
                                      !.kind = m.kind, !.created = m.created]

JobSyncPrograms ==
    /\ threads.pc = "scope" /\ threads.jobs["sync_programs"] = "running"
    /\ \E sys \in [ProgramsFields -> JobOutcomes] :
       \E r \in { sync_programs(config_data, disk, sys) } :
          /\ JobDone("sync_programs", r)
          /\ threads' = [threads EXCEPT !.jobs["sync_programs"] = r.kind,
                                        !.wrote = @ \cup r.wrote, !.sys = sys]
    /\ UNCHANGED mirror

JobSavePulls ==
    /\ threads.pc = "scope" /\ threads.jobs["save_pulls"] = "running"
    /\ \E sys \in JobOutcomes :
       \E r \in { job_with_paths(config_data, disk, "gh", {"file_pulls"}, "pulls", sys) } :
          /\ JobDone("save_pulls", r)
          /\ threads' = [threads EXCEPT !.jobs["save_pulls"] = r.kind,
                                        !.wrote = @ \cup r.wrote]
    /\ UNCHANGED mirror

JobSaveProjects ==
    /\ threads.pc = "scope" /\ threads.jobs["save_projects"] = "running"
    /\ \E sys \in JobOutcomes :
       \E r \in { job_with_paths(config_data, disk, "gh", {"file_projects"},
                                  "projects", sys) } :
          /\ JobDone("save_projects", r)
          /\ threads' = [threads EXCEPT !.jobs["save_projects"] = r.kind,
                                        !.wrote = @ \cup r.wrote]
    /\ UNCHANGED mirror

\* The scope ends when every job has ended; the results of the jobs are
\* dropped with their handles and sync_all returns Ok(()).
SyncAllReturn ==
    /\ pc = "running" /\ threads.pc = "scope"
    /\ \A j \in Jobs : threads.jobs[j] # "running"
    /\ threads' = [threads EXCEPT !.pc = "returned", !.result = "ok"]
    /\ pc' = "exited"
    /\ last' = Last("sync_all", "", "", Skipped)
    /\ UNCHANGED <<config_data, disk, use_input, warned, handed, ops, call, other, fetch, mirror>>

SyncAllNext ==
    \/ SyncAllBegin
    \/ SyncAllPreSyncMovies
    \/ SyncAllPreSaveFiles
    \/ SyncAllPreSyncPrograms
    \/ SyncAllPreSyncGithub
    \/ SyncAllSpawn
    \/ JobSyncMovies
    \/ JobSaveFiles
    \/ JobSyncPrograms
    \/ JobSavePulls
    \/ JobSaveProjects
    \/ SyncAllReturn

SpecSyncAll == SyncAllInit /\ [][SyncAllNext]_vars

\* ------------------------------------------------------------- gh
\* The chains of pages GitHub may hold for one paginated query.  Page i holds
\* up to two items (numbered 10*i + k), has hasNextPage true when it is not
\* the last, and ends at a cursor of its own; an empty connection is a single
\* page with no item and endCursor null.
PageChains ==
    UNION {{[i \in 1..n |->
                [items |-> [k \in 1..sz[i] |-> 10 * i + k],
                 end_cursor |-> IF sz[i] = 0 THEN None ELSE Some([j \in 1..i |-> "c"]),
                 has_next_page |-> i < n]] :
              sz \in {s \in [1..n -> 0..2] : \A i \in 1..n : s[i] = 0 => n = 1}} :
           n \in 1..MaxPages}

\* A variant of the request that never names a cursor.
add_never_after(response_data) == None

\* The `after` argument of the next request: none when
\* response_data.end_cursor.trim().is_empty(), else the cursor.
add(response_data) ==
    IF \A i \in 1..Len(response_data.end_cursor) : response_data.end_cursor[i] = " "
    THEN None
    ELSE Some(response_data.end_cursor)

\* GitHub's answer to a request: the first page, or the page after the one
\* that ended at the cursor.
Respond(chain, after) ==
    IF after = None THEN 1
    ELSE 1 + (CHOOSE i \in 1..Len(chain) : chain[i].end_cursor = after)

\* What comes back from `gh api graphql`: the page; nothing, because sh could
\* not be spawned; text that is not JSON; JSON that is not an object; an
\* object without data.user.<type> (an errors object, user null); the
\* connection without its pageInfo.
ResponseKinds ==
    {"page", "spawn_failed", "not_json", "non_object", "no_user", "no_page_info"}

\* One turn of the loop of Gh::save_pulls on the answer `what`.  The answer
\* is deserialized as GhResponse: every field is required and endCursor is a
\* String, so anything but a page with a cursor is an error.
save_pulls_loop(f, what) ==
    LET after == add(f.response_data)
        n == Respond(f.chain, after)
        page == f.chain[n]
        sent == [f EXCEPT !.requests = Append(@, after),
                          !.responses = Append(@, IF what = "page" THEN n ELSE 0)]
    IN IF what # "page" \/ page.end_cursor = None
       THEN [sent EXCEPT !.pc = "error"]
       ELSE [sent EXCEPT !.all = @ \o page.items,
                         !.response_data = [end_cursor |-> page.end_cursor[1],
                                            has_next_page |-> page.has_next_page],
                         !.pc = IF page.has_next_page THEN "loop" ELSE "done"]

\* One turn of the loop of Gh::fetch_projects on the answer `what`.  The
\* answer is parsed as a Value; response_data changes only inside the match
\* on data.user.<type>, and the other arms fall through to the loop test.
fetch_projects_loop(f, what) ==
    LET after == add(f.response_data)
        n == Respond(f.chain, after)
        page == f.chain[n]
        sent == [f EXCEPT !.requests = Append(@, after),
                          !.responses = Append(@, IF what = "page" THEN n ELSE 0)]
    IN CASE what \in {"spawn_failed", "not_json", "no_page_info"} ->
                [sent EXCEPT !.pc = "error"]
         [] what \in {"non_object", "no_user"} -> sent
         [] what = "page" /\ page.end_cursor = None -> [sent EXCEPT !.pc = "error"]
         [] OTHER ->
                [sent EXCEPT !.all = @ \o page.items,
                             !.response_data = [end_cursor |-> page.end_cursor[1],
                                                has_next_page |-> page.has_next_page],
                             !.pc = IF page.has_next_page THEN "loop" ELSE "done"]

\* A fetch begins: response_data = GhPageInfo { has_next_page: true,
\* ..Default::default() }, nothing accumulated.
GhInit ==
    /\ config_data = AllSetConfig
    /\ disk = [dir |-> TRUE, exists |-> TRUE, text |-> TomlToString(config_data)]
    /\ pc = "running"
    /\ use_input = TRUE
    /\ warned = FALSE
    /\ last = Last("new", "", "", NoOutcome("ok"))
    /\ handed = [site \in ConfigPathSites |-> None]
    /\ ops = 0
    /\ call = Idle
    /\ other = Idle
    /\ threads = Idle
    /\ mirror = Idle
    /\ fetch \in [pc : {"loop"}, kind : {"pulls", "repositories", "gists"},
                  chain : PageChains,
                  response_data : {[end_cursor |-> <<>>, has_next_page |-> TRUE]},
                  all : {<<>>}, requests : {<<>>}, responses : {<<>>}]

\* while response_data.has_next_page { .. } of save_pulls.
GhSavePulls ==
    /\ fetch.pc = "loop" /\ fetch.kind = "pulls"
    /\ Len(fetch.requests) < MaxRequests
    /\ \E what \in ResponseKinds : fetch' = save_pulls_loop(fetch, what)
    /\ UNCHANGED <<config_data, disk, pc, use_input, warned, last, handed, ops, call, other,
                   threads, mirror>>

\* while response_data.has_next_page { .. } of fetch_projects.
GhFetchProjects ==
    /\ fetch.pc = "loop" /\ fetch.kind \in {"repositories", "gists"}
    /\ Len(fetch.requests) < MaxRequests
    /\ \E what \in ResponseKinds : fetch' = fetch_projects_loop(fetch, what)
    /\ UNCHANGED <<config_data, disk, pc, use_input, warned, last, handed, ops, call, other,
                   threads, mirror>>

GhNext == GhSavePulls \/ GhFetchProjects

SpecGh == GhInit /\ [][GhNext]_vars

\* ------------------------------------------------------------- movies stats
\* Iterator::sum over the notes.
RECURSIVE Sum(_)
Sum(notes) == IF notes = <<>> THEN 0 ELSE Head(notes) + Sum(Tail(notes))

\* A variant that takes the lower middle note for the median.
get_stats_lower_median(movies) ==
    LET n == Len(movies)
        dates == {movies[i].date : i \in 1..n}
        notes == SortSeq([i \in 1..n |-> movies[i].note], LAMBDA a, b : a < b)
    IN IF n = 0 THEN [kind |-> "panic", min_date |-> 0, max_date |-> 0, avg_note |-> "NaN"]
       ELSE [kind |-> "ok",
             min_date |-> CHOOSE d \in dates : \A e \in dates : d <= e,
             max_date |-> CHOOSE d \in dates : \A e \in dates : e <= d,
             avg_note |-> [num |-> Sum([i \in 1..n |-> movies[i].note]), den |-> n],
             median_note |-> notes[((n - 1) \div 2) + 1]]

\* Movies::get_stats.  The f64 quotient is kept as the fraction num/den (NaN
\* for 0.0 / 0.0); notes[notes.len() / 2] indexes from 0 and panics on an
\* empty Vec after the dates and the average have been computed.
get_stats(movies) ==
    LET n == Len(movies)
        dates == {movies[i].date : i \in 1..n}
        min_date == IF n = 0 THEN 0 ELSE CHOOSE d \in dates : \A e \in dates : d <= e
        max_date == IF n = 0 THEN 0 ELSE CHOOSE d \in dates : \A e \in dates : e <= d
        avg_note == IF n = 0 THEN "NaN"
                    ELSE [num |-> Sum([i \in 1..n |-> movies[i].note]), den |-> n]
        notes == SortSeq([i \in 1..n |-> movies[i].note], LAMBDA a, b : a < b)
    IN IF n \div 2 >= Len(notes)
       THEN [kind |-> "panic", min_date |-> min_date, max_date |-> max_date,
             avg_note |-> avg_note]
       ELSE [kind |-> "ok", min_date |-> min_date, max_date |-> max_date,
             avg_note |-> avg_note, median_note |-> notes[(n \div 2) + 1]]

\* ------------------------------------------------------------- list_crates
\* What crates.io holds for the crates of the model: p has a description and
\* a repository, q is announced ("Incoming ..") and has a homepage, r has
\* nothing but its name, s has everything.  A String is kept as its pieces.
CratesIo ==
    [p |-> [name |-> "p", description |-> Some(<<"Plain">>), repository |-> Some("repo-p"),
            homepage |-> None, documentation |-> None],
     q |-> [name |-> "q", description |-> Some(<<"Incoming", " soon">>),
            repository |-> None, homepage |-> Some("home-q"), documentation |-> None],
     r |-> [name |-> "r", description |-> None, repository |-> None,
            homepage |-> None, documentation |-> None],
     s |-> [name |-> "s", description |-> Some(<<"Special">>), repository |-> Some("repo-s"),
            homepage |-> Some("home-s"), documentation |-> Some("docs-s")]]

\* The closure of list_crates that builds a row: [name, name_with_url, desc,
\* infos], a [String; 4].
CrateRow(krate) ==
    LET link(o) == IF o = None THEN <<"N/A">> ELSE <<"<", o[1], ">">>
    IN << <<krate.name>>,
          <<"[", krate.name, "](https://crates.io/crates/", krate.name, ")">>,
          IF krate.description = None THEN <<"N/A">> ELSE krate.description[1],
          link(krate.homepage) \o <<" <br/> ">> \o link(krate.repository)
             \o <<" <br/> ">> \o link(krate.documentation) >>

\* UtilsListCrates::format_table.  max_sizes is a [usize; 3]: acc[i] on the
\* fourth cell of a row is out of bounds and panics.  A line is kept as its
\* cells zipped with the widths; the separator follows the first row.
format_table(table) ==
    IF \E r \in 1..Len(table) : Len(table[r]) > 3
    THEN [kind |-> "panic", lines |-> <<>>]
    ELSE LET width(i) ==
                 LET sizes == {Len(table[r][i]) : r \in {x \in 1..Len(table) : Len(table[x]) >= i}}
                 IN IF sizes = {} THEN 0 ELSE CHOOSE w \in sizes : \A v \in sizes : v <= w
             max_sizes == [i \in 1..3 |-> width(i)]
             line(r) == [cells |-> table[r], widths |-> SubSeq(max_sizes, 1, Len(table[r]))]
         IN [kind |-> "ok",
             lines |-> IF table = <<>> THEN <<>>
                       ELSE <<line(1), [sep |-> max_sizes]>>
                               \o [r \in 1..(Len(table) - 1) |-> line(r + 1)]]

\* UtilsListCrates::generate_markdown_table: specials is the --specials list
\* split at the commas, filtered the --filtered flag.
generate_markdown_table(rows, filtered, specials) ==
    LET header == << <<"Crate">>, <<"Description">>, <<"Homepage && Repo">> >>
        special(row) == row[1][1] \in specials
        incoming(row) == row[3] # <<>> /\ row[3][1] \in {"Incoming", "incoming"}
        to_push(group) == [r \in 1..Len(group) |-> Tail(group[r])]
        table1 == IF filtered
                  THEN to_push(SelectSeq(rows, LAMBDA row : ~special(row) /\ ~incoming(row)))
                  ELSE rows
        table2 == IF filtered
                  THEN to_push(SelectSeq(rows, LAMBDA row : ~special(row) /\ incoming(row)))
                  ELSE <<>>
        table3 == IF filtered THEN to_push(SelectSeq(rows, special)) ELSE <<>>
        t1 == format_table(<<header>> \o table1)
        t2 == format_table(<<header>> \o table2)
        t3 == format_table(<<header>> \o table3)
    IN IF t1.kind # "ok" \/ (table2 # <<>> /\ t2.kind # "ok")
             \/ (table3 # <<>> /\ t3.kind # "ok")
       THEN [kind |-> "panic", buf |-> <<>>]
       ELSE [kind |-> "ok",
             buf |-> t1.lines
                     \o (IF table2 = <<>> THEN <<>> ELSE <<[title |-> "## Incoming"]>> \o t2.lines)
                     \o (IF table3 = <<>> THEN <<>> ELSE <<[title |-> "## Others"]>> \o t3.lines)]

\* A variant that gives up at the first crate it cannot fetch.
list_crates_aborts(c) ==
    [kind |-> IF \A i \in 1..Len(c.fetched) : c.fetched[i].ok THEN "ok" ELSE "error",
     infos |-> [i \in 1..Len(c.fetched) |-> CratesIo[c.fetched[i].name]],
     warnings |-> 0, out |-> <<>>]

\* UtilsListCrates::list_crates on the flags and on what the requests gave:
\* listed, whether get_all_crates succeeded; fetched, per crate of the
\* listing its name and whether get_one_crate succeeded.
list_crates(c) ==
    LET all_crates == [i \in 1..Len(c.fetched) |-> c.fetched[i].name]
        got == SelectSeq(c.fetched, LAMBDA f : f.ok)
        all_crates_infos == [i \in 1..Len(got) |-> CratesIo[got[i].name]]
        warnings == Len(c.fetched) - Len(got)
        tables == generate_markdown_table(
                      [i \in 1..Len(got) |-> CrateRow(all_crates_infos[i])],
                      c.filtered, c.specials)
    IN CASE ~c.listed ->
              [kind |-> "error", infos |-> <<>>, warnings |-> 0, out |-> <<>>]
         [] c.listed /\ ~c.full ->
              [kind |-> "ok", infos |-> <<>>, warnings |-> 0, out |-> [json |-> all_crates]]
         [] c.listed /\ c.full /\ ~c.markdown ->
              [kind |-> "ok", infos |-> all_crates_infos, warnings |-> warnings,
               out |-> [json |-> all_crates_infos]]
         [] OTHER ->
              [kind |-> tables.kind, infos |-> all_crates_infos, warnings |-> warnings,
               out |-> [markdown |-> tables.buf]]

\* ------------------------------------------------------------- computing commands
\* `movies stats` on any list of up to MaxMovies movies; `utils list_crates`
\* on any listing of up to MaxCrates crates, any result of each fetch and any
\* flags.
CallInit ==
    /\ config_data = AllSetConfig
    /\ disk = [dir |-> TRUE, exists |-> TRUE, text |-> TomlToString(config_data)]
    /\ pc = "running"
    /\ use_input = TRUE
    /\ warned = FALSE
    /\ last = Last("new", "", "", NoOutcome("ok"))
    /\ handed = [site \in ConfigPathSites |-> None]
    /\ ops = 0
    /\ other = Idle
    /\ threads = Idle
    /\ fetch = Idle
    /\ mirror = Idle
    /\ \/ \E n \in 0..MaxMovies :
            call \in [pc : {"called"}, fn : {"print_stats"},
                      movies : [1..n -> [date : {2, 7}, note : 1..3]]]
       \/ \E n \in 0..MaxCrates :
            call \in [pc : {"called"}, fn : {"list_crates"},
                      fetched : {f \in [1..n -> [name : {"p", "q", "r", "s"}, ok : BOOLEAN]] :
                                    \A i, j \in 1..n : f[i].name = f[j].name => i = j},
                      listed : BOOLEAN, full : BOOLEAN, markdown : BOOLEAN,
                      filtered : BOOLEAN, specials : {{}, {"s"}}]

\* Movies::print_stats: get_stats, then the five lines.
PrintStats ==
    /\ call.pc = "called" /\ call.fn = "print_stats"
    /\ call' = [pc |-> "done", fn |-> call.fn, movies |-> call.movies,
                result |-> get_stats(call.movies)]
    /\ UNCHANGED <<config_data, disk, pc, use_input, warned, last, handed, ops,
                   other, threads, fetch, mirror>>

\* UtilsListCrates::list_crates.
ListCrates ==
    /\ call.pc = "called" /\ call.fn = "list_crates"
    /\ call' = [pc |-> "done", fn |-> call.fn, args |-> call,
                result |-> list_crates(call)]
    /\ UNCHANGED <<config_data, disk, pc, use_input, warned, last, handed, ops,
                   other, threads, fetch, mirror>>

CallNext == PrintStats \/ ListCrates

SpecCall == CallInit /\ [][CallNext]_vars

\* ------------------------------------------------------------- sync programs
\* `sync programs` is invoked on a loaded configuration; call.pc is the
\* handler pre_sync_programs runs next, call.entered the path entered at the
\* prompt of each handler, call.before the configuration loaded.
ProgramsInit ==
    /\ config_data \in InitConfigs
    /\ disk = [dir |-> TRUE, exists |-> TRUE, text |-> TomlToString(config_data)]
    /\ pc = "running"
    /\ use_input \in BOOLEAN
    /\ warned = FALSE
    /\ last = Last("new", "", "", NoOutcome("ok"))
    /\ handed = [site \in ConfigPathSites |-> None]
    /\ ops = 0
    /\ call = [pc |-> "cargo_programs", before |-> config_data,
               entered |-> [f \in ProgramsFields |-> None]]
    /\ other = Idle
    /\ threads = Idle
    /\ fetch = Idle
    /\ mirror = Idle

\* One line of pre_sync_programs: the handler of fld, then `?`.
PreSyncProgramsStep(fld, next) ==
    /\ pc = "running" /\ call.pc = fld
    /\ \E stream \in PreSyncStreams(config_data, use_input, fld) :
       \E fs \in FsFor(stream) :
       \E r \in { pre_sync_programs_field(config_data, disk, use_input, fld, stream, fs) } :
          /\ config_data' = r.cd
          /\ disk' = r.disk
          /\ pc' = CASE r.kind = "ok" -> "running"
                     [] r.kind = "hang" -> "hung"
                     [] OTHER -> "exited"
          /\ last' = Last("pre_sync_programs", "sync", fld, r)
          /\ ops' = ops + 1
          /\ call' = [call EXCEPT
                         !.pc = IF r.kind = "ok" THEN next ELSE "failed",
                         !.entered[fld] = IF r.kind = "ok" /\ r.prompts > 0
                                          THEN r.path ELSE @]
    /\ UNCHANGED <<use_input, warned, handed, other, threads, fetch, mirror>>

ProgramsNext ==
    \/ PreSyncProgramsStep("cargo_programs", "nix")
    \/ PreSyncProgramsStep("nix", "vscode_extensions")
    \/ PreSyncProgramsStep("vscode_extensions", "sync_programs")

SpecPrograms == ProgramsInit /\ [][ProgramsNext]_vars

\* ------------------------------------------------------------- two invocations
\* Two processes have loaded the same configuration file, each into its own
\* Config: config_data, pc and last belong to the first, other to the second;
\* other.order lists the invocations in the order of their successful saves.
TwoInit ==
    /\ config_data \in InitConfigs
    /\ disk = [dir |-> TRUE, exists |-> TRUE, text |-> TomlToString(config_data)]
    /\ pc = "running"
    /\ use_input = TRUE
    /\ warned = FALSE
    /\ last = Last("new", "", "", NoOutcome("ok"))
    /\ handed = [site \in ConfigPathSites |-> None]
    /\ ops = 0
    /\ other = [pc |-> "running", config_data |-> config_data, last |-> last,
                order |-> <<>>]
    /\ call = Idle
    /\ threads = Idle
    /\ fetch = Idle
    /\ mirror = Idle

\* The first invocation resolves one path with config_path!.
FirstResolve ==
    /\ pc = "running" /\ last.op = "new"
    /\ \E site \in ConfigPathSites :
       \E stream \in StreamsIf(~FieldSet(config_data, site[1], site[2])) :
       \E fs \in FsFor(stream) :
       \E r \in { config_path(config_data, disk, site[1], site[2], stream, 1, fs) } :
          /\ config_data' = r.cd
          /\ disk' = r.disk
          /\ pc' = CASE r.kind = "ok" -> "running"
                     [] r.kind = "hang" -> "hung"
                     [] OTHER -> "exited"
          /\ last' = Last("config_path", site[1], site[2], r)
          /\ other' = [other EXCEPT !.order = IF r.save = "ok" THEN Append(@, 1) ELSE @]
          /\ UNCHANGED <<ops, use_input, warned, handed, call, threads, fetch, mirror>>

\* The second invocation resolves one path with config_path!, from its own
\* copy of the configuration and on the same file.
SecondResolve ==
    /\ other.pc = "running" /\ other.last.op = "new"
    /\ \E site \in ConfigPathSites :
       \E stream \in StreamsIf(~FieldSet(other.config_data, site[1], site[2])) :
       \E fs \in FsFor(stream) :
       \E r \in { config_path(other.config_data, disk, site[1], site[2], stream, 1, fs) } :
          /\ disk' = r.disk
          /\ other' = [pc |-> CASE r.kind = "ok" -> "running"
                                [] r.kind = "hang" -> "hung"
                                [] OTHER -> "exited",
                        config_data |-> r.cd,
                        last |-> Last("config_path", site[1], site[2], r),
                        order |-> IF r.save = "ok" THEN Append(other.order, 2)
                                  ELSE other.order]
          /\ UNCHANGED <<config_data, pc, last, ops, use_input, warned, handed,
                         call, threads, fetch, mirror>>

TwoNext == FirstResolve \/ SecondResolve

SpecTwo == TwoInit /\ [][TwoNext]_vars

\* ------------------------------------------------------------- reading the state
Sections == {"movies", "sync", "gh", "music"}

\* A field of the configuration; an absent section reads as its defaults.
FieldValue(cd, sec, fld) ==
    IF cd[sec] = None THEN DefaultSection(sec)[fld] ELSE cd[sec][1][fld]

\* A field of sync.programs; an absent record reads as unset.
SubFieldValue(cd, fld) ==
    IF ProgramsSet(cd) THEN cd.sync[1].programs[1][fld] ELSE None

\* The lines an operation read at its path prompts (a yes/no answer comes first).
PathLines(l) == IF l.asked /\ l.lines # <<>> THEN Tail(l.lines) ELSE l.lines

Final(seq) == seq[Len(seq)]

\* The step is one of the handlers; l is last'.
HandlerStep(op) == ops' = ops + 1 /\ last'.op = op

\* What a resolve of site would do now, were no input offered.
ResolveNow(site) == config_path(config_data, disk, site[1], site[2], <<>>, 1, "ok")

\* ------------------------------------------------------------- claims

\* C1: a config_path! resolve of a field that is set in a present section
\* returns the stored path, reads no input, prints no prompt, leaves
\* config_data unchanged and does not write the configuration file.
C1_SetPathNoIo ==
    [][(HandlerStep("config_path") /\ FieldSet(config_data, last'.sec, last'.fld))
         => /\ last'.kind = "ok"
            /\ last'.path = FieldValue(config_data, last'.sec, last'.fld)
            /\ last'.lines = <<>>
            /\ last'.prompts = 0
            /\ ~last'.asked
            /\ last'.save = "none"
            /\ config_data' = config_data
            /\ disk' = disk]_vars

C1_Witness ==
    /\ last.op = "config_path" /\ last.sec = "sync" /\ last.fld = "save_folder_path"
    /\ last.kind = "ok" /\ last.prompts = 0 /\ last.path = Some(<<"b">>)
    /\ config_data = SyncOnlyConfig

\* C2: after a config_path! resolve that prompted and succeeded, the resolved
\* field holds the entered path, every other section and every other field of
\* the same section keeps its value, and the file parses back to config_data.
C2_PromptedFrame ==
    [][(HandlerStep("config_path") /\ last'.kind = "ok" /\ last'.prompts > 0)
         => /\ last'.path = Some(Final(last'.lines))
            /\ FieldValue(config_data', last'.sec, last'.fld) = last'.path
            /\ \A sec \in Sections \ {last'.sec} : config_data'[sec] = config_data[sec]
            /\ \A fld \in (DOMAIN DefaultSection(last'.sec)) \ {last'.fld} :
                  FieldValue(config_data', last'.sec, fld)
                     = FieldValue(config_data, last'.sec, fld)
            /\ TomlFromStr(disk'.text) = [ok |-> TRUE, data |-> config_data']]_vars

\* From the empty file: movies.file_path resolved to "a", gh, sync, music absent.
C2_Witness ==
    /\ last.op = "config_path" /\ last.sec = "movies" /\ last.fld = "file_path"
    /\ last.kind = "ok" /\ last.prompts = 1 /\ last.path = Some(<<"a">>)
    /\ config_data = [DefaultConfigData EXCEPT !.movies =
                         Some([DefaultMovies EXCEPT !.file_path = Some(<<"a">>)])]
    /\ disk.text = <<TableLine("movies"), StrLine("file_path", <<"a">>)>>

\* C3 (as claimed): after a nested resolve of sync.programs.<field> that
\* prompted and succeeded, sync.file_paths, sync.save_folder_path, the other
\* two fields of programs and the other sections keep their values.
C3_NestedFrame ==
    [][(HandlerStep("pre_sync_programs") /\ last'.kind = "ok" /\ last'.path # None
          /\ last'.prompts > 0)
         => /\ SubFieldValue(config_data', last'.fld) = last'.path
            /\ FilePaths(config_data') = FilePaths(config_data)
            /\ FieldValue(config_data', "sync", "save_folder_path")
                  = FieldValue(config_data, "sync", "save_folder_path")
            /\ \A fld \in ProgramsFields \ {last'.fld} :
                  SubFieldValue(config_data', fld) = SubFieldValue(config_data, fld)
            /\ \A sec \in Sections \ {"sync"} : config_data'[sec] = config_data[sec]]_vars

\* C4: a single backslash read at a path prompt (the first or a re-prompt)
\* ends the operation with the "no path" error; config_data is not mutated
\* and the file is not rewritten.
C4_SentinelCancels ==
    [][(ops' = ops + 1 /\ last'.prompts > 0
          /\ \E i \in DOMAIN PathLines(last') : PathLines(last')[i] = Sentinel)
         => /\ last'.kind = "no_path"
            /\ Final(last'.lines) = Sentinel
            /\ last'.path = None
            /\ last'.save = "none"
            /\ pc' = "exited"
            /\ config_data' = config_data
            /\ disk' = disk]_vars

\* The sentinel at a re-prompt of a nested resolve.
C4_Witness ==
    /\ last.op = "pre_sync_programs" /\ last.kind = "no_path"
    /\ last.lines = << <<"x">>, Sentinel >>
    /\ last.prompts = 2

\* C5: an operation whose input_path succeeded read only non-existent paths
\* before the accepted line, printed one re-prompt for each of them, and took
\* the accepted line, an existing path, as its path.
C5_AcceptsExisting ==
    (last.prompts > 0 /\ last.kind \in {"ok", "write_error"})
      => LET pl == PathLines(last)
         IN /\ pl # <<>>
            /\ Exists(Final(pl))
            /\ \A i \in 1..(Len(pl) - 1) : ~Exists(pl[i]) /\ pl[i] # Sentinel
            /\ last.prompts = Len(pl)
            /\ (last.kind = "ok" /\ last.op # "add_file") => last.path = Some(Final(pl))
            /\ (last.kind = "ok" /\ last.op = "add_file")
                  => Final(FilePaths(config_data)) = Final(pl)

C5_Witness ==
    /\ last.op = "config_path" /\ last.kind = "ok"
    /\ last.lines = << <<"x">>, <<"b">> >>
    /\ last.prompts = 2
    /\ last.path = Some(<<"b">>)

\* C6 (as claimed): once a resolve of a field has succeeded, a resolve of the
\* same field, in this invocation or in a later one that loaded the file,
\* returns the same path without prompting and without rewriting the file.
C6_AskedOnce ==
    pc = "running"
      => \A site \in ConfigPathSites :
            handed[site] # None
              => LET r == ResolveNow(site)
                 IN /\ r.kind = "ok"
                    /\ r.path = handed[site]
                    /\ r.prompts = 0
                    /\ r.save = "none"

\* C7: a resolve that prompted hands the path to its caller only when the
\* whole configuration has been written; when the write fails the resolve
\* returns the error, not the path, and the process ends.
C7_SavedBeforeReturned ==
    /\ (last.op \in {"config_path", "pre_sync_programs"} /\ last.prompts > 0
          /\ last.path # None)
         => /\ last.save = "ok"
            /\ disk.exists
            /\ disk.text = TomlToString(config_data)
    /\ last.save \in {"create_failed", "write_failed"}
         => /\ last.kind = "write_error"
            /\ last.path = None
            /\ pc = "exited"

C7_Witness ==
    /\ last.op = "config_path" /\ last.prompts = 1 /\ last.path = Some(<<"a">>)
    /\ last.save = "ok" /\ pc = "running"

\* C8: every successful Config::update leaves the file equal to the
\* serialization of config_data, and from then on the two stay equal in every
\* state of the invocation: no write is deferred.
C8_PersistedImmediately ==
    [][/\ (ops' = ops + 1 /\ last'.save = "ok")
            => (disk'.exists /\ disk'.text = TomlToString(config_data'))
       /\ (pc = "running" /\ pc' = "running" /\ disk.text = TomlToString(config_data))
            => disk'.text = TomlToString(config_data')]_vars

\* Two updates in one invocation, the second by add_file.
C8_Witness ==
    /\ pc = "running" /\ ops = 2 /\ last.op = "add_file" /\ last.save = "ok"
    /\ FilePaths(config_data) # <<>>
    /\ disk.text = TomlToString(config_data)

\* C9 (as claimed): a load that returns a configuration has parsed the file;
\* malformed contents make the load fail.
C9_LoadFailsFast ==
    (last.op \in {"new", "new_from_path"} /\ last.kind = "ok")
      => TomlFromStr(disk.text).ok

\* C10 (as claimed): an invocation whose file failed to parse at load never
\* overwrites that file.
C10_NoSilentDiscard ==
    [][(pc = "running" /\ warned) => disk'.text = disk.text]_vars

\* C11: for every ConfigData, parsing the text that save wrote yields an
\* equal ConfigData (and no parse error).
C11_RoundTrip ==
    [][(pc = "saved" /\ pc' = "parsed")
         => (config_data' = config_data /\ ~warned')]_vars

\* A populated configuration: the sync section with two file paths and a
\* programs record with no field set, movies with one field set, gh absent.
C11_Witness ==
    /\ pc = "parsed"
    /\ config_data.gh = None
    /\ config_data.movies = Some([file_path |-> None, public_file_path |-> Some(<<"a">>)])
    /\ config_data.sync = Some([file_paths |-> << <<"a">>, <<"b">> >>,
                                save_folder_path |-> None,
                                programs |-> Some(DefaultProgramsConfig)])
    /\ disk.text # <<>>

\* C12 (as claimed): a load that cannot locate or open the configuration
\* file, by the default path or by an explicit one, ends with an error value
\* (the file cannot be read, the home directory cannot be resolved); the
\* process is not aborted.
C12_LoadFailureIsError ==
    (last.op \in {"new", "new_from_path"} /\ last.kind # "ok")
      => last.kind \in {"read_error", "no_home"}

\* C13: Config::new's resolution of the default path never truncates,
\* recreates or removes a config.toml that exists; when it succeeds the
\* directory and the file are there, and a file that was absent is empty.
C13_DefaultPathCreated ==
    [][(pc \in {"start", "exited"} /\ last'.op = "new")
         => /\ disk.exists => (disk'.exists /\ disk'.text = disk.text)
            /\ last'.kind = "ok"
                 => /\ disk'.dir /\ disk'.exists
                    /\ ~disk.exists => disk'.text = <<>>]_vars

\* The default path held a populated file: it was loaded as it was.
C13_Witness ==
    /\ last.op = "new" /\ last.kind = "ok" /\ pc = "running"
    /\ disk.dir /\ disk.exists /\ disk.text = TomlToString(FullConfig)
    /\ config_data = FullConfig

\* C20 (as claimed): every file save_files created or overwrote lies inside
\* the configured destination folder.
C20_WritesInsideFolder ==
    mirror.pc = "done"
      => \A i \in DOMAIN mirror.created :
            LET folder_path == PathBufFrom(config_data.sync[1].save_folder_path[1])
            IN /\ StartsWith(mirror.created[i], folder_path)
               /\ Len(mirror.created[i]) > Len(folder_path)

C15_PathsSetAtSpawn ==
    threads.pc \in {"scope", "returned"} /\ threads.result # "error" =>
        /\ \A j \in Jobs : threads.jobs[j] # "not_set"
        /\ config_data.sync # None =>
              /\ FieldSet(config_data, "sync", "save_folder_path")
              /\ \A fld \in ProgramsFields : SubFieldValue(config_data, fld) # None
        /\ config_data.movies # None =>
              /\ FieldSet(config_data, "movies", "file_path")
              /\ FieldSet(config_data, "movies", "public_file_path")
        /\ config_data.gh # None =>
              /\ FieldSet(config_data, "gh", "file_pulls")
              /\ FieldSet(config_data, "gh", "file_projects")

\* C16: sync_all returns an error whenever one of its jobs returned an error.
C16_JobFailurePropagated ==
    (threads.pc = "returned" /\ \E j \in Jobs : threads.jobs[j] \notin {"none", "ok"})
        => threads.result = "error"

\* C17: when sync_programs has run, each of cargo, nix and vscode whose path
\* is set, whose command ran and whose file could be written has written its
\* file, whatever happened to the other two.
C17_JobFailureIsLocal ==
    threads.jobs["sync_programs"] \notin {"none", "running"} =>
        \A fld \in ProgramsFields :
            (SubFieldValue(config_data, fld) # None /\ threads.sys[fld] = "ok")
                => fld \in threads.wrote

\* C18: in save_pulls and fetch_projects the first request names no cursor
\* and each later one names the end cursor of the page received before it;
\* no request follows a page whose has_next_page is false; and a fetch that
\* returns has received the pages of the chain once each, in order, its last
\* page being the first with has_next_page false, and returns their items
\* in that order.
C18_CursorChain ==
    fetch.pc \in {"loop", "done", "error"} =>
        /\ \A i \in 1..Len(fetch.requests) :
              LET before == {j \in 1..(i - 1) : fetch.responses[j] # 0}
              IN fetch.requests[i] =
                    IF before = {} THEN None
                    ELSE fetch.chain[fetch.responses[
                             CHOOSE j \in before : \A m \in before : m <= j]].end_cursor
        /\ \A i \in 1..(Len(fetch.responses) - 1) :
              fetch.responses[i] # 0 => fetch.chain[fetch.responses[i]].has_next_page
        /\ fetch.pc = "done" =>
              /\ SelectSeq(fetch.responses, LAMBDA n : n # 0)
                    = [i \in 1..Len(fetch.chain) |-> i]
              /\ ~fetch.chain[fetch.responses[Len(fetch.responses)]].has_next_page
              /\ \A p, q \in 1..Len(fetch.all) : p < q => fetch.all[p] < fetch.all[q]
              /\ {fetch.all[p] : p \in 1..Len(fetch.all)}
                    = UNION {{fetch.chain[i].items[k] : k \in 1..Len(fetch.chain[i].items)} :
                             i \in 1..Len(fetch.chain)}

\* fetch_projects has returned the repositories of a chain of three pages.
C18_Witness ==
    /\ fetch.pc = "done" /\ fetch.kind = "repositories"
    /\ Len(fetch.chain) = 3 /\ Len(fetch.all) > 3

\* C19: in fetch_projects an answer that is not a page ends the fetch with an
\* error, and no more requests are issued than the chain has pages.
C19_NoRetry ==
    (fetch.pc # "idle" /\ fetch.kind \in {"repositories", "gists"}) =>
        /\ (fetch.responses # <<>> /\ fetch.responses[Len(fetch.responses)] = 0)
              => fetch.pc = "error"
        /\ Len(fetch.requests) <= Len(fetch.chain)

\* C21: on a non-empty list get_stats returns the least and the greatest
\* date, the sum of the notes over their count, and as median the note that
\* has at most len/2 notes below it and more than len/2 notes not above it
\* (the element at index len/2 of the sorted notes).
C21_Stats ==
    (call.pc = "done" /\ call.fn = "print_stats" /\ call.movies # <<>>) =>
        LET n == Len(call.movies)
            r == call.result
            count(v) == Cardinality({i \in 1..n : call.movies[i].note = v})
            below(v) == Cardinality({i \in 1..n : call.movies[i].note < v})
        IN /\ r.kind = "ok"
           /\ \E i \in 1..n : call.movies[i].date = r.min_date
           /\ \E i \in 1..n : call.movies[i].date = r.max_date
           /\ \A i \in 1..n : r.min_date <= call.movies[i].date
                              /\ call.movies[i].date <= r.max_date
           /\ r.avg_note = [num |-> count(1) + 2 * count(2) + 3 * count(3), den |-> n]
           /\ below(r.median_note) <= n \div 2
           /\ below(r.median_note) + count(r.median_note) > n \div 2

\* The notes 1, 2, 3: mean 6/3 and median 2.
C21_Witness ==
    /\ call.pc = "done" /\ call.fn = "print_stats"
    /\ [i \in 1..Len(call.movies) |-> call.movies[i].note] = <<1, 2, 3>>
    /\ call.result.avg_note = [num |-> 6, den |-> 3]
    /\ call.result.median_note = 2

\* C29: get_stats returns for the empty list too, with min_date 0 and
\* max_date 0.
C29_StatsTotal ==
    (call.pc = "done" /\ call.fn = "print_stats" /\ call.movies = <<>>) =>
        /\ call.result.kind = "ok"
        /\ call.result.min_date = 0
        /\ call.result.max_date = 0

\* C22: with --full, list_crates keeps exactly the crates whose fetch
\* succeeded, in the order of the listing, warns once per failed fetch, and
\* ends the same way as it would had the failed crates not been listed.
C22_FailedFetchDropped ==
    (call.pc = "done" /\ call.fn = "list_crates" /\ call.args.listed /\ call.args.full) =>
        LET f == call.args.fetched
            r == call.result
            at(name) == CHOOSE i \in 1..Len(f) : f[i].name = name
        IN /\ \A i \in 1..Len(f) :
                 f[i].ok <=> \E k \in 1..Len(r.infos) : r.infos[k].name = f[i].name
           /\ \A k \in 1..Len(r.infos) : \E i \in 1..Len(f) : f[i].name = r.infos[k].name
           /\ \A k, m \in 1..Len(r.infos) :
                 k < m => at(r.infos[k].name) < at(r.infos[m].name)
           /\ r.warnings = Cardinality({i \in 1..Len(f) : ~f[i].ok})
           /\ r.kind # "error"
           /\ r = [list_crates([call.args EXCEPT !.fetched = SelectSeq(f, LAMBDA x : x.ok)])
                     EXCEPT !.warnings = r.warnings]

\* Of three crates listed the second could not be fetched.
C22_Witness ==
    /\ call.pc = "done" /\ call.fn = "list_crates"
    /\ call.args.listed /\ call.args.full
    /\ Len(call.args.fetched) = 3
    /\ ~call.args.fetched[2].ok
    /\ Len(call.result.infos) = 2
    /\ call.result.kind = "ok"

\* C30: with --full --markdown list_crates renders its tables, and every row
\* of them has three cells.
C30_ThreeCells ==
    (call.pc = "done" /\ call.fn = "list_crates" /\ call.args.listed
        /\ call.args.full /\ call.args.markdown) =>
        /\ call.result.kind = "ok"
        /\ \A i \in 1..Len(call.result.out.markdown) :
              "cells" \in DOMAIN call.result.out.markdown[i]
                 => Len(call.result.out.markdown[i].cells) = 3

\* C23: after save_files every configured source file that was there before
\* the call has the content it had before the call.
C23_SourcesUntouched ==
    (mirror.pc = "done" /\ config_data.sync # None /\ mirror.home # None) =>
        \A i \in DOMAIN config_data.sync[1].file_paths :
            LET source == join(mirror.home[1], PathBufFrom(config_data.sync[1].file_paths[i]))
            IN source \in DOMAIN mirror.before
                  => /\ source \in DOMAIN mirror.files
                     /\ mirror.files[source] = mirror.before[source]

\* C24: a successful add_file appends the entered path at the end of
\* sync.file_paths, keeps the paths already there (duplicates included), the
\* other fields of sync and the other sections; on a configuration with no
\* sync section it creates one holding exactly that path; and the file parses
\* back to the same list.
C24_AppendsAtEnd ==
    [][(HandlerStep("add_file") /\ last'.kind = "ok")
         => /\ last'.lines # <<>>
            /\ FilePaths(config_data') = Append(FilePaths(config_data), Final(last'.lines))
            /\ \A sec \in Sections \ {"sync"} : config_data'[sec] = config_data[sec]
            /\ config_data'.sync # None
            /\ config_data'.sync[1].save_folder_path
                  = (IF config_data.sync = None THEN None
                     ELSE config_data.sync[1].save_folder_path)
            /\ config_data'.sync[1].programs
                  = (IF config_data.sync = None THEN None ELSE config_data.sync[1].programs)
            /\ LET parsed == TomlFromStr(disk'.text)
               IN parsed.ok /\ FilePaths(parsed.data) = FilePaths(config_data')]_vars

\* Two successful add_file calls that entered the same path: it is there twice.
C24_Witness ==
    /\ last.op = "add_file" /\ last.kind = "ok" /\ ops = 2
    /\ Len(FilePaths(config_data)) = 2
    /\ FilePaths(config_data)[1] = FilePaths(config_data)[2]
    /\ FilePaths(config_data)[2] = Final(last.lines)

\* C26 (as claimed): input_path returns on every input stream; at end of
\* input, before an existing path or the sentinel was read, the operation that
\* called it ends with an error and the process never stays in the re-prompt
\* loop.
C26_InputPathTerminates ==
    pc # "hung" /\ last.kind # "hang"

\* C27: when the save of a Config::update fails, the operation returns the
\* error while config_data already holds the updater's change (the entered
\* path, in the field the operation resolves): the file is not the
\* serialization of config_data and does not parse back to it.
C27_NoRollback ==
    [][(ops' = ops + 1 /\ last'.save \in {"create_failed", "write_failed"})
         => /\ last'.kind = "write_error"
            /\ config_data' # config_data
            /\ CASE last'.op = "config_path" ->
                     FieldValue(config_data', last'.sec, last'.fld)
                        = Some(Final(last'.lines))
                 [] last'.op = "pre_sync_programs" ->
                     SubFieldValue(config_data', last'.fld)
                        = Some(Final(PathLines(last')))
                 [] last'.op = "add_file" ->
                     Final(FilePaths(config_data')) = Final(last'.lines)
                 [] OTHER -> FALSE
            /\ disk'.text # TomlToString(config_data')
            /\ TomlFromStr(disk'.text).data # config_data']_vars

\* The write of the first resolve failed after the file was truncated:
\* movies.file_path is "a" in memory and the file is empty.
C27_Witness ==
    /\ last.op = "config_path" /\ last.save = "write_failed" /\ pc = "exited"
    /\ FieldValue(config_data, "movies", "file_path") = Some(<<"a">>)
    /\ disk.exists /\ disk.text = <<>>

\* C25: pre_sync_programs with input enabled, on a configuration that had no
\* sync section: a path entered at the prompt of one handler stays in its
\* field of sync.programs through the handlers after it, and when the user
\* confirmed and entered a path at each of the three, cargo_programs, nix and
\* vscode_extensions all hold the paths entered, in memory and in the file.
C25_ProgramsAllSet ==
    (use_input /\ call.before.sync = None)
      => /\ \A f \in ProgramsFields :
               call.entered[f] # None => SubFieldValue(config_data, f) = call.entered[f]
         /\ (call.pc = "sync_programs" /\ \A f \in ProgramsFields : call.entered[f] # None)
               => /\ ProgramsSet(config_data)
                  /\ \A f \in ProgramsFields :
                        SubFieldValue(TomlFromStr(disk.text).data, f) = call.entered[f]

\* From the empty configuration: "a" for cargo, then yes and "b" for nix, then
\* yes and "a" for vscode.
C25_Witness ==
    /\ use_input /\ call.before = DefaultConfigData /\ call.pc = "sync_programs"
    /\ call.entered = [cargo_programs |-> Some(<<"a">>), nix |-> Some(<<"b">>),
                       vscode_extensions |-> Some(<<"a">>)]
    /\ last.asked /\ last.prompts = 1

\* C28: two invocations loaded the same file and each entered and saved a
\* different unset field: the file is the serialization of the copy of the
\* invocation that saved last, it holds that invocation's path, and the field
\* entered in the other invocation is absent from it.
C28_LostUpdate ==
    (/\ last.op = "config_path" /\ last.save = "ok"
     /\ other.last.op = "config_path" /\ other.last.save = "ok"
     /\ <<last.sec, last.fld>> # <<other.last.sec, other.last.fld>>)
      => LET firstWon == Final(other.order) = 1
             winner == IF firstWon THEN config_data ELSE other.config_data
             won == IF firstWon THEN last ELSE other.last
             lost == IF firstWon THEN other.last ELSE last
             file == TomlFromStr(disk.text)
         IN /\ disk.text = TomlToString(winner)
            /\ file.ok
            /\ FieldValue(file.data, won.sec, won.fld) = won.path
            /\ lost.path # None
            /\ FieldValue(file.data, lost.sec, lost.fld) = None

\* From the empty file: the first invocation saved movies.file_path = "a",
\* then the second saved gh.file_pulls = "b"; the file has no movies section.
C28_Witness ==
    /\ other.order = <<1, 2>>
    /\ last.sec = "movies" /\ last.fld = "file_path" /\ last.path = Some(<<"a">>)
    /\ other.last.sec = "gh" /\ other.last.fld = "file_pulls"
    /\ other.last.path = Some(<<"b">>)
    /\ config_data.movies # None
    /\ TomlFromStr(disk.text).data.movies = None
    /\ TomlFromStr(disk.text).data.gh # None

====
